---- MODULE Spec2Model ----
(***************************************************************************)
(* CTU-13 NetFlow analyzer: the flow-record parser and its dataset summary *)
(* (ctu13_analyzer/parser.py), the botnet-behaviour detectors, anomaly     *)
(* detection and clustering (ctu13_analyzer/analyzer.py), and the pipeline *)
(* command (ctu13_analyzer/cli.py, ctu13_analyzer/downloader.py).          *)
(*                                                                         *)
(* Text is modelled as a sequence of one-character strings, so that        *)
(* stripping, splitting, digit tests and substring search are computed     *)
(* character by character as the Python string methods compute them.       *)
(***************************************************************************)
EXTENDS Integers, Sequences, FiniteSets, TLC

VARIABLES pc, lines, flows, result, err, log, arg, ret, df, findings, scaler, fs

vars == <<pc, lines, flows, result, err, log, arg, ret, df, findings, scaler, fs>>

\* ---------------------------------------------------------------- bounds
MaxLines == 3

\* ------------------------------------------------------- text primitives
Chars(s) == [i \in 1..Len(s) |-> SubSeq(s, i, i)]

Whitespace == {" ", "\t"}

Digits == {"0", "1", "2", "3", "4", "5", "6", "7", "8", "9"}

DigitVal(c) ==
  CASE c = "0" -> 0 [] c = "1" -> 1 [] c = "2" -> 2 [] c = "3" -> 3
    [] c = "4" -> 4 [] c = "5" -> 5 [] c = "6" -> 6 [] c = "7" -> 7
    [] c = "8" -> 8 [] c = "9" -> 9

\* the Python value None, and the two other outcomes of a call
None == [tag |-> "None"]

Ok(v) == [tag |-> "ok", val |-> v]

Raise(e) == [tag |-> "raise", exc |-> e]

RECURSIVE lstrip(_)
lstrip(s) ==
  IF s # <<>> /\ Head(s) \in Whitespace THEN lstrip(Tail(s)) ELSE s

RECURSIVE rstrip(_)
rstrip(s) ==
  IF s # <<>> /\ s[Len(s)] \in Whitespace
    THEN rstrip(SubSeq(s, 1, Len(s) - 1))
    ELSE s

\* str.strip()
strip(s) == rstrip(lstrip(s))

\* index of the first character of s, from position i on, that lies in
\* the set cs (0 if none)
RECURSIVE find_from(_, _, _)
find_from(s, cs, i) ==
  IF i > Len(s) THEN 0
  ELSE IF s[i] \in cs THEN i
  ELSE find_from(s, cs, i + 1)

find(s, cs) == find_from(s, cs, 1)

\* str.split(sep) for a one-character separator
RECURSIVE split(_, _)
split(s, sep) ==
  LET i == find(s, {sep})
  IN  IF i = 0
        THEN <<s>>
        ELSE <<SubSeq(s, 1, i - 1)>> \o split(SubSeq(s, i + 1, Len(s)), sep)

\* re.split(r'\s+', s): every maximal run of whitespace is one separator
RECURSIVE re_split_ws(_)
re_split_ws(s) ==
  LET i == find(s, Whitespace)
  IN  IF i = 0
        THEN <<s>>
        ELSE <<SubSeq(s, 1, i - 1)>> \o re_split_ws(lstrip(SubSeq(s, i, Len(s))))

\* str.isdigit(): non-empty and every character a digit
isdigit(s) == s # <<>> /\ \A i \in 1..Len(s) : s[i] \in Digits

\* value of a digit string (0 for the empty string)
RECURSIVE DecVal(_)
DecVal(s) ==
  IF s = <<>> THEN 0
  ELSE 10 * DecVal(SubSeq(s, 1, Len(s) - 1)) + DigitVal(s[Len(s)])

Unsigned(s) == IF s # <<>> /\ Head(s) \in {"+", "-"} THEN Tail(s) ELSE s

Sign(s) == IF s # <<>> /\ Head(s) = "-" THEN -1 ELSE 1

\* int(s): surrounding whitespace is ignored; an optional sign and one or
\* more digits, else ValueError
int(s) ==
  LET t == strip(s)
  IN  IF isdigit(Unsigned(t))
        THEN Ok(Sign(t) * DecVal(Unsigned(t)))
        ELSE Raise("ValueError")

\* a decimal value m * 10^-e, without trailing zeros in the fraction
RECURSIVE Dec(_, _)
Dec(m, e) == IF e > 0 /\ m % 10 = 0 THEN Dec(m \div 10, e - 1) ELSE [m |-> m, e |-> e]

\* float(s): surrounding whitespace is ignored; an optional sign, then
\* digits with an optional fraction ("1", "1.", "1.5", ".5"), else
\* ValueError
float(s) ==
  LET t == strip(s)
      u == Unsigned(t)
      d == find(u, {"."})
      ip == IF d = 0 THEN u ELSE SubSeq(u, 1, d - 1)
      fp == IF d = 0 THEN <<>> ELSE SubSeq(u, d + 1, Len(u))
      digitsOrEmpty(x) == \A i \in 1..Len(x) : x[i] \in Digits
  IN  IF digitsOrEmpty(ip) /\ digitsOrEmpty(fp) /\ (ip # <<>> \/ fp # <<>>)
        THEN Ok(Dec(Sign(t) * DecVal(ip \o fp), Len(fp)))
        ELSE Raise("ValueError")

\* str.lower() on the letters of the token alphabet
LowerOf(c) ==
  CASE c = "A" -> "a" [] c = "B" -> "b" [] c = "C" -> "c" [] c = "D" -> "d"
    [] c = "E" -> "e" [] c = "F" -> "f" [] c = "G" -> "g" [] c = "H" -> "h"
    [] c = "I" -> "i" [] c = "J" -> "j" [] c = "K" -> "k" [] c = "L" -> "l"
    [] c = "M" -> "m" [] c = "N" -> "n" [] c = "O" -> "o" [] c = "P" -> "p"
    [] c = "Q" -> "q" [] c = "R" -> "r" [] c = "S" -> "s" [] c = "T" -> "t"
    [] c = "U" -> "u" [] c = "V" -> "v" [] c = "W" -> "w" [] c = "X" -> "x"
    [] c = "Y" -> "y" [] c = "Z" -> "z" [] OTHER -> c

lower(s) == [i \in 1..Len(s) |-> LowerOf(s[i])]

\* the Python test `sub in s` on strings
Contains(s, sub) ==
  \E i \in 0..(Len(s) - Len(sub)) : SubSeq(s, i + 1, i + Len(sub)) = sub

\* a missing value (None / NaN), as pd.isna recognises it: distinct from
\* every text, whose elements are single characters
NaN == <<"NaN">>

isna(v) == v = NaN

\* --------------------------------------------------- _parse_netflow_line
\* variant: the comma-separated fields are not trimmed
fields_of_untrimmed(line) ==
  IF \E i \in 1..Len(line) : line[i] = ","
    THEN split(line, ",")
    ELSE re_split_ws(strip(line))

\* the field list of a line: split on commas and trim when a comma is
\* present, else split on runs of whitespace
fields_of(line) ==
  IF \E i \in 1..Len(line) : line[i] = ","
    THEN LET raw == split(line, ",") IN [i \in 1..Len(raw) |-> strip(raw[i])]
    ELSE re_split_ws(strip(line))

\* variant: the wildcard is handed to float() like any other token
dur_of_strict(f) == float(f)

\* float(f) if f != '*' else 0.0
dur_of(f) == IF f # Chars("*") THEN float(f) ELSE Ok(Dec(0, 0))

\* variant: a count that does not parse is coerced to 0
count_of_coerce(f) == IF f # Chars("*") /\ int(f).tag = "ok" THEN int(f) ELSE Ok(0)

\* int(f) if f != '*' else 0
count_of(f) == IF f # Chars("*") THEN int(f) ELSE Ok(0)

\* the body of the try block: the flow record, or the first exception
\* that building it raises
flow_of(fields) ==
  LET Dur == dur_of(fields[2])
      TotPkts == count_of(fields[12])
      TotBytes == count_of(fields[13])
      SrcBytes == count_of(fields[14])
  IN  IF Dur.tag = "raise" THEN Dur
      ELSE IF TotPkts.tag = "raise" THEN TotPkts
      ELSE IF TotBytes.tag = "raise" THEN TotBytes
      ELSE IF SrcBytes.tag = "raise" THEN SrcBytes
      ELSE Ok([StartTime |-> fields[1],
               Dur |-> Dur.val,
               Proto |-> fields[3],
               SrcAddr |-> fields[4],
               Sport |-> fields[5],
               Dir |-> fields[6],
               DstAddr |-> fields[7],
               Dport |-> fields[8],
               State |-> fields[9],
               sTos |-> fields[10],
               dTos |-> fields[11],
               TotPkts |-> TotPkts.val,
               TotBytes |-> TotBytes.val,
               SrcBytes |-> SrcBytes.val,
               Label |-> IF Len(fields) > 14 THEN fields[15] ELSE Chars("Unknown")])

\* except (ValueError, IndexError): return None
except_value_index(r) ==
  IF r.tag = "raise" /\ r.exc \in {"ValueError", "IndexError"} THEN None ELSE r

\* variant: no length check and no IndexError handler
_parse_netflow_line_unchecked(line) ==
  LET fields == fields_of(line)
  IN  IF Len(fields) < 14 THEN Raise("IndexError") ELSE except_value_index(flow_of(fields))

_parse_netflow_line(line) ==
  LET fields == fields_of(line)
  IN  IF Len(fields) < 14 THEN None ELSE except_value_index(flow_of(fields))

\* TRUE when _parse_netflow_line(line) takes its except branch, where it
\* emits its debug message
parse_line_debug(line) ==
  LET fields == fields_of(line)
  IN  Len(fields) >= 14 /\ flow_of(fields).tag = "raise"

\* ------------------------------------------------- enrichment functions
port_map ==
  {<<Chars("http"), 80>>, <<Chars("https"), 443>>, <<Chars("ftp"), 21>>,
   <<Chars("ssh"), 22>>, <<Chars("telnet"), 23>>, <<Chars("smtp"), 25>>,
   <<Chars("dns"), 53>>, <<Chars("pop3"), 110>>, <<Chars("imap"), 143>>,
   <<Chars("snmp"), 161>>}

\* variant: the service name is looked up as written
_extract_port_case_sensitive(port_str) ==
  IF isna(port_str) THEN 0
  ELSE IF isdigit(port_str) THEN DecVal(port_str)
  ELSE IF \E e \in port_map : e[1] = port_str
    THEN (CHOOSE e \in port_map : e[1] = port_str)[2]
    ELSE 0

_extract_port(port_str) ==
  IF isna(port_str) THEN 0   \* AttributeError, caught by the bare except
  ELSE IF isdigit(port_str) THEN DecVal(port_str)
  ELSE IF \E e \in port_map : e[1] = lower(port_str)
    THEN (CHOOSE e \in port_map : e[1] = lower(port_str))[2]
    ELSE 0

\* variant: 'normal' is tested before 'botnet'
_categorize_label_normal_first(label) ==
  IF isna(label) \/ label = Chars("Unknown") THEN "Unknown"
  ELSE LET label_lower == lower(label)
       IN  IF Contains(label_lower, Chars("normal")) THEN "Normal"
           ELSE IF Contains(label_lower, Chars("botnet")) THEN "Botnet"
           ELSE IF Contains(label_lower, Chars("c&c")) \/ Contains(label_lower, Chars("cc"))
             THEN "C&C"
           ELSE IF Contains(label_lower, Chars("background")) THEN "Background"
           ELSE "Other"

_categorize_label(label) ==
  IF isna(label) \/ label = Chars("Unknown") THEN "Unknown"
  ELSE LET label_lower == lower(label)
       IN  IF Contains(label_lower, Chars("botnet")) THEN "Botnet"
           ELSE IF Contains(label_lower, Chars("c&c")) \/ Contains(label_lower, Chars("cc"))
             THEN "C&C"
           ELSE IF Contains(label_lower, Chars("normal")) THEN "Normal"
           ELSE IF Contains(label_lower, Chars("background")) THEN "Background"
           ELSE "Other"

_categorize_protocol(proto) ==
  LET proto_lower == lower(proto)
  IN  IF proto_lower = Chars("tcp") THEN "TCP"
      ELSE IF proto_lower = Chars("udp") THEN "UDP"
      ELSE IF proto_lower = Chars("icmp") THEN "ICMP"
      ELSE "Other"

\* one decimal octet of a dotted quad: 1-3 digits, no leading zero, <= 255
octet(s) ==
  IF isdigit(s) /\ Len(s) <= 3 /\ (Len(s) = 1 \/ Head(s) # "0") /\ DecVal(s) <= 255
    THEN Ok(DecVal(s))
    ELSE Raise("ValueError")

\* ipaddress.ip_address(s) for IPv4 text: the four octets, or ValueError
ip_address(s) ==
  LET parts == split(s, ".")
  IN  IF Len(parts) = 4 /\ \A i \in 1..4 : octet(parts[i]).tag = "ok"
        THEN Ok([i \in 1..4 |-> octet(parts[i]).val])
        ELSE Raise("ValueError")

\* the network a.b.c.d/len
Net(a, b, c, d, len) == [base |-> <<a, b, c, d>>, len |-> len]

\* the leading 24 bits of an address
High24(o) == (o[1] * 256 + o[2]) * 256 + o[3]

\* addr in net: the first net.len bits agree
InNet(addr, net) ==
  IF net.len <= 24
    THEN High24(addr) \div (2 ^ (24 - net.len)) = High24(net.base) \div (2 ^ (24 - net.len))
    ELSE /\ High24(addr) = High24(net.base)
         /\ addr[4] \div (2 ^ (32 - net.len)) = net.base[4] \div (2 ^ (32 - net.len))

\* the networks for which IPv4Address.is_private holds
private_networks ==
  {Net(0, 0, 0, 0, 8), Net(10, 0, 0, 0, 8), Net(127, 0, 0, 0, 8),
   Net(169, 254, 0, 0, 16), Net(172, 16, 0, 0, 12), Net(192, 0, 0, 0, 29),
   Net(192, 0, 0, 170, 31), Net(192, 0, 2, 0, 24), Net(192, 168, 0, 0, 16),
   Net(198, 18, 0, 0, 15), Net(198, 51, 100, 0, 24), Net(203, 0, 113, 0, 24),
   Net(240, 0, 0, 0, 4), Net(255, 255, 255, 255, 32)}

\* variant: only the three RFC1918 networks
is_private_rfc1918(addr) ==
  \E net \in {Net(10, 0, 0, 0, 8), Net(172, 16, 0, 0, 12), Net(192, 168, 0, 0, 16)} :
    InNet(addr, net)

is_private(addr) == \E net \in private_networks : InNet(addr, net)

_is_private_ip(ip_str) ==
  LET ip == ip_address(ip_str)
  IN  IF ip.tag = "raise" THEN FALSE   \* bare except: return False
      ELSE is_private(ip.val)

\* pd.to_datetime(text, errors='coerce') on the timestamp shapes of the
\* token alphabet: "H:MM", optionally preceded by "M/D " ; anything else
\* is NaT.  The value is [day, minute]: day M*100+D (0 without a date).
clock(s) ==
  LET p == split(s, ":")
  IN  IF Len(p) = 2 /\ isdigit(p[1]) /\ isdigit(p[2])
        THEN Ok(DecVal(p[1]) * 60 + DecVal(p[2]))
        ELSE Raise("ValueError")

date(s) ==
  LET p == split(s, "/")
  IN  IF Len(p) = 2 /\ isdigit(p[1]) /\ isdigit(p[2])
        THEN Ok(DecVal(p[1]) * 100 + DecVal(p[2]))
        ELSE Raise("ValueError")

NaT == [tag |-> "NaT"]

to_datetime(s) ==
  LET p == re_split_ws(strip(s))
  IN  IF Len(p) = 1 /\ clock(p[1]).tag = "ok"
        THEN Ok([day |-> 0, minute |-> clock(p[1]).val])
      ELSE IF Len(p) = 2 /\ date(p[1]).tag = "ok" /\ clock(p[2]).tag = "ok"
        THEN Ok([day |-> date(p[1]).val, minute |-> clock(p[2]).val])
      ELSE NaT

\* df['TotPkts'].replace(0, 1)
replace_0_1(n) == IF n = 0 THEN 1 ELSE n

\* one row of _clean_dataframe: the derived columns are added to the row
\* and StartTime is converted; PktSize is the quotient num / den
clean_row(r) ==
  [StartTime |-> to_datetime(r.StartTime),
   Dur |-> r.Dur, Proto |-> r.Proto, SrcAddr |-> r.SrcAddr, Sport |-> r.Sport,
   Dir |-> r.Dir, DstAddr |-> r.DstAddr, Dport |-> r.Dport, State |-> r.State,
   sTos |-> r.sTos, dTos |-> r.dTos, TotPkts |-> r.TotPkts,
   TotBytes |-> r.TotBytes, SrcBytes |-> r.SrcBytes, Label |-> r.Label,
   SrcPort |-> _extract_port(r.Sport),
   DstPort |-> _extract_port(r.Dport),
   DstBytes |-> r.TotBytes - r.SrcBytes,
   PktSize |-> [num |-> r.TotBytes, den |-> replace_0_1(r.TotPkts)],
   LabelCategory |-> _categorize_label(r.Label),
   SrcIP_Private |-> _is_private_ip(r.SrcAddr),
   DstIP_Private |-> _is_private_ip(r.DstAddr),
   ProtoCategory |-> _categorize_protocol(r.Proto)]

_clean_dataframe(rows) == [i \in 1..Len(rows) |-> clean_row(rows[i])]

\* ------------------------------------------------------------- logging
\* logging.basicConfig(level=logging.INFO): debug records are dropped
emit(lg, level, msg, line_num) ==
  IF level = "debug"
    THEN lg
    ELSE Append(lg, [level |-> level, msg |-> msg, line_num |-> line_num])

\* ------------------------------------------------ parse_biargus_file
\* the lines a file may hold
FileLines ==
  {Chars("8/10 9:46,0.0,tcp,8.8.4.4,1024,<->,8.8.8.8,6881,SF,0,0,3,120,60,Normal"),
   Chars("8/10 9:47,5.12,udp,192.168.1.1,53,<->,8.8.8.8,dns,SF,0,0,2,128,64,Background"),
   Chars("8/10 9:48,*,icmp,172.16.0.1,*,<->,172.16.0.2,*,SF,0,0,*,*,*,Normal"),
   Chars("# 8/10 9:50,1.5,tcp,10.0.0.1,80,->,8.8.8.8,http,SF,0,0,10,1500,750,Botnet"),
   Chars("  #x"),
   Chars("  "),
   Chars("8/10 9:46,0.0,tcp"),
   Chars("8/10 9:46,invalid,tcp,8.8.4.4,1024,<->,8.8.8.8,6881,SF,0,0,3,120,60,Normal"),
   Chars("8/10 9:46,1.5,tcp,8.8.4.4,1024,<->,8.8.8.8,6881,SF,0,0,3,120,6.0,Botnet"),
   Chars("9:49 1.5 tcp 10.0.0.1 80 -> 10.0.0.2 http SF 0 0 10 1500 750")}

Idle ==
  /\ arg = <<>> /\ ret = None /\ df = <<>> /\ findings = None
  /\ scaler = None /\ fs = <<>>

Init ==
  /\ pc = "start"
  /\ lines = <<>>
  /\ flows = <<>>
  /\ result = None
  /\ err = None
  /\ log = <<>>
  /\ Idle

\* open(filepath) raises: the outer handler catches the exception (err),
\* logs the failure and returns None
OpenFail ==
  /\ pc = "start"
  /\ pc' = "done"
  /\ err' = Raise("OSError")
  /\ result' = None
  /\ log' = emit(emit(log, "info", "Parsing NetFlow file", 0),
                 "error", "Failed to parse file", 0)
  /\ UNCHANGED <<lines, flows, arg, ret, df, findings, scaler, fs>>

\* open(filepath) succeeds; flows = []
Open ==
  /\ pc = "start"
  /\ pc' = "reading"
  /\ flows' = <<>>
  /\ log' = emit(log, "info", "Parsing NetFlow file", 0)
  /\ UNCHANGED <<lines, result, err, arg, ret, df, findings, scaler, fs>>

\* variant: comment lines are not skipped
ReadLine_nocomment(text) ==
  /\ pc = "reading"
  /\ Len(lines) < MaxLines
  /\ lines' = Append(lines, text)
  /\ LET line_num == Len(lines) + 1
         line == strip(text)
         flow_data == _parse_netflow_line(line)
     IN  IF line = <<>>
           THEN UNCHANGED <<flows, log>>
         ELSE IF flow_data.tag = "raise"
           THEN /\ log' = emit(log, "warning", "Error parsing line", line_num)
                /\ UNCHANGED flows
         ELSE IF flow_data.tag = "ok"
           THEN /\ flows' = Append(flows, flow_data.val)
                /\ UNCHANGED log
         ELSE /\ log' = IF parse_line_debug(line)
                          THEN emit(log, "debug", "Error parsing flow data", 0)
                          ELSE log
              /\ UNCHANGED flows
  /\ UNCHANGED <<pc, result, err, arg, ret, df, findings, scaler, fs>>

\* one iteration of the loop over the file, on the next line of the file
ReadLine(text) ==
  /\ pc = "reading"
  /\ Len(lines) < MaxLines
  /\ lines' = Append(lines, text)
  /\ LET line_num == Len(lines) + 1
         line == strip(text)
         flow_data == _parse_netflow_line(line)
     IN  IF line = <<>> \/ Head(line) = "#"
           THEN UNCHANGED <<flows, log>>
         ELSE IF flow_data.tag = "raise"
           THEN /\ log' = emit(log, "warning", "Error parsing line", line_num)
                /\ UNCHANGED flows
         ELSE IF flow_data.tag = "ok"
           THEN /\ flows' = Append(flows, flow_data.val)
                /\ UNCHANGED log
         ELSE /\ log' = IF parse_line_debug(line)
                          THEN emit(log, "debug", "Error parsing flow data", 0)
                          ELSE log
              /\ UNCHANGED flows
  /\ UNCHANGED <<pc, result, err, arg, ret, df, findings, scaler, fs>>

\* variant: the lines parsed before the failure are returned
ReadFail_partial ==
  /\ pc = "reading"
  /\ pc' = "done"
  /\ err' = Raise("OSError")
  /\ result' = IF flows = <<>> THEN None ELSE Ok(_clean_dataframe(flows))
  /\ log' = emit(log, "error", "Failed to parse file", 0)
  /\ UNCHANGED <<lines, flows, arg, ret, df, findings, scaler, fs>>

\* reading the next line raises (I/O or decoding error): the outer handler
\* catches the exception (err), logs the failure and returns None
ReadFail ==
  /\ pc = "reading"
  /\ pc' = "done"
  /\ err' = Raise("OSError")
  /\ result' = None
  /\ log' = emit(log, "error", "Failed to parse file", 0)
  /\ UNCHANGED <<lines, flows, arg, ret, df, findings, scaler, fs>>

\* the file is exhausted: no flows is a failure, else the cleaned frame
EndOfFile ==
  /\ pc = "reading"
  /\ pc' = "done"
  /\ IF flows = <<>>
       THEN /\ result' = None
            /\ log' = emit(log, "error", "No valid flows found in file", 0)
       ELSE /\ result' = Ok(_clean_dataframe(flows))
            /\ log' = emit(log, "info", "Parsed NetFlow records", 0)
  /\ UNCHANGED <<lines, flows, err, arg, ret, df, findings, scaler, fs>>

Next ==
  \/ OpenFail
  \/ Open
  \/ \E text \in FileLines : ReadLine(text)
  \/ ReadFail
  \/ EndOfFile

Spec == Init /\ [][Next]_vars

\* ------------------------------------------- _parse_netflow_line alone
\* A line is written from a list of field texts: every text is padded on
\* both sides with pad, and the padded texts are joined with sep.
RECURSIVE join(_, _)
join(ps, sep) ==
  IF ps = <<>> THEN <<>>
  ELSE IF Len(ps) = 1 THEN ps[1]
  ELSE ps[1] \o sep \o join(Tail(ps), sep)

write_line(pieces, sep, pad) ==
  join([i \in 1..Len(pieces) |-> pad \o pieces[i] \o pad], sep)

StartTimes == {Chars("9:46"), Chars("8/10 9:46")}

DurTokens ==
  {Chars("1.5"), Chars("0"), Chars("*"), Chars("x"), Chars("-.5"), Chars("1."), Chars("")}

PktTokens ==
  {Chars("3"), Chars("*"), Chars("x"), Chars("1.5"), Chars("-2"), Chars("+7")}

ByteTokens == {Chars("120"), Chars("*"), Chars("12x")}

\* what follows the TotBytes field: nothing (13 fields), SrcBytes (14),
\* SrcBytes and Label (15), and one more field (16)
Endings(sb) ==
  {<<>>, <<sb>>, <<sb, Chars("Normal")>>, <<sb, Chars("Botnet"), Chars("extra")>>}

Formats ==
  {[sep |-> Chars(","), pad |-> Chars("")], [sep |-> Chars(","), pad |-> Chars(" ")],
   [sep |-> Chars(" "), pad |-> Chars("")], [sep |-> Chars("\t"), pad |-> Chars(" ")]}

FieldLists ==
  {<<st, dur, Chars("tcp"), Chars("10.0.0.1"), Chars("80"), Chars("->"),
     Chars("8.8.8.8"), Chars("dns"), Chars("SF"), Chars("0"), Chars("0"), pk, tb>> \o tl :
     st \in StartTimes, dur \in DurTokens, pk \in PktTokens, tb \in ByteTokens,
     tl \in UNION {Endings(sb) : sb \in ByteTokens}}

LineInputs ==
  {[pieces |-> ps, sep |-> f.sep, pad |-> f.pad, line |-> write_line(ps, f.sep, f.pad)] :
     ps \in FieldLists, f \in Formats}

ParserIdle ==
  /\ lines = <<>> /\ flows = <<>> /\ result = None /\ err = None /\ log = <<>>
  /\ scaler = None /\ fs = <<>>

InitLine ==
  /\ pc = "call"
  /\ arg \in LineInputs
  /\ ret = None
  /\ df = <<>> /\ findings = None
  /\ ParserIdle

\* the call _parse_netflow_line(line)
ParseLine ==
  /\ pc = "call"
  /\ pc' = "ret"
  /\ ret' = _parse_netflow_line(arg.line)
  /\ UNCHANGED <<lines, flows, result, err, log, arg, df, findings, scaler, fs>>

NextLine == ParseLine

SpecLine == InitLine /\ [][NextLine]_vars

\* ------------------------------------------ enrichment functions alone
MaxPieces == 2

MaxPortDigits == 3

LabelPieces ==
  {Chars("Botnet"), Chars("BOT"), Chars("net"), Chars("Normal"), Chars("NORMAL"),
   Chars("C&C"), Chars("c"), Chars("Background"), Chars("Unknown"), Chars("flow="),
   Chars("-V42"), Chars("success")}

RECURSIVE concat(_)
concat(ps) == IF ps = <<>> THEN <<>> ELSE Head(ps) \o concat(Tail(ps))

LabelInputs ==
  {NaN} \cup {concat(ps) : ps \in UNION {[1..n -> LabelPieces] : n \in 0..MaxPieces}}

FunctionIdle == df = <<>> /\ findings = None /\ ParserIdle

InitLabel == pc = "call" /\ arg \in LabelInputs /\ ret = None /\ FunctionIdle

\* the call _categorize_label(label)
CategorizeLabel ==
  /\ pc = "call"
  /\ pc' = "ret"
  /\ ret' = Ok(_categorize_label(arg))
  /\ UNCHANGED <<lines, flows, result, err, log, arg, df, findings, scaler, fs>>

NextLabel == CategorizeLabel

SpecLabel == InitLabel /\ [][NextLabel]_vars

PortDigits == {"0", "4", "8"}

PortInputs ==
  UNION {[1..n -> PortDigits] : n \in 1..MaxPortDigits}
  \cup {e[1] : e \in port_map}
  \cup {Chars("HTTP"), Chars("Https"), Chars("FTP"), Chars("SSH"), Chars("Telnet"),
        Chars("SMTP"), Chars("DNS"), Chars("POP3"), Chars("Imap"), Chars("SNMP")}
  \cup {Chars("*"), Chars(""), Chars("unknown"), Chars("80a"), Chars("-1"), Chars("+80"),
        Chars(" 80"), Chars("http "), Chars("0x50"), Chars("8.0"), Chars("httpx"),
        Chars("htt"), NaN}

InitPort == pc = "call" /\ arg \in PortInputs /\ ret = None /\ FunctionIdle

\* the call _extract_port(port_str)
ExtractPort ==
  /\ pc = "call"
  /\ pc' = "ret"
  /\ ret' = Ok(_extract_port(arg))
  /\ UNCHANGED <<lines, flows, result, err, log, arg, df, findings, scaler, fs>>

NextPort == ExtractPort

SpecPort == InitPort /\ [][NextPort]_vars

FirstOctets ==
  {Chars("0"), Chars("8"), Chars("9"), Chars("10"), Chars("11"), Chars("100"),
   Chars("127"), Chars("147"), Chars("169"), Chars("172"), Chars("192"), Chars("198"),
   Chars("239"), Chars("240"), Chars("255"), Chars("256"), Chars("010"), Chars("x"),
   Chars("")}

SecondOctets ==
  {Chars("0"), Chars("15"), Chars("16"), Chars("18"), Chars("31"), Chars("32"),
   Chars("64"), Chars("168"), Chars("254")}

ThirdOctets == {Chars("0"), Chars("2")}

FourthOctets == {Chars("1"), Chars("8"), Chars("255")}

AddressInputs ==
  {join(<<a, b, c, d>>, Chars(".")) :
     a \in FirstOctets, b \in SecondOctets, c \in ThirdOctets, d \in FourthOctets}
  \cup {Chars("invalid_ip"), Chars(""), Chars("10.0.0"), Chars("10.0.0.1.1"),
        Chars("10.0.0.1 "), Chars(" 10.0.0.1"), Chars("10..0.1"), Chars("10.0.0.-1"),
        Chars("192.168.1"), Chars("*")}

InitPrivate == pc = "call" /\ arg \in AddressInputs /\ ret = None /\ FunctionIdle

\* the call _is_private_ip(ip_str)
IsPrivateIp ==
  /\ pc = "call"
  /\ pc' = "ret"
  /\ ret' = Ok(_is_private_ip(arg))
  /\ UNCHANGED <<lines, flows, result, err, log, arg, df, findings, scaler, fs>>

NextPrivate == IsPrivateIp

SpecPrivate == InitPrivate /\ [][NextPrivate]_vars

\* ------------------------------------------------ _detect_dns_tunneling
\* A dataset is a sequence of blocks; a block [row, n] stands for n
\* consecutive rows equal to row.
MaxBlocks == 2

BulkRun == 1000

\* avg_bytes > 100
DnsAvgBytes == 100

\* query_count > 1000
DnsQueryCount == 1000

SomeTime == Ok([day |-> 810, minute |-> 586])

DnsRows ==
  [SrcAddr : {Chars("10.0.0.1"), Chars("10.0.0.2")},
   DstPort : {53, 80},
   TotBytes : {99, 101},
   StartTime : {SomeTime, NaT}]

Blocks == [row : DnsRows, n : {1, BulkRun}]

Datasets == UNION {[1..k -> Blocks] : k \in 0..MaxBlocks}

\* len(d): the number of rows
RECURSIVE len(_)
len(d) == IF d = <<>> THEN 0 ELSE Head(d).n + len(Tail(d))

\* Series.sum() of the column TotBytes
RECURSIVE sum_TotBytes(_)
sum_TotBytes(d) ==
  IF d = <<>> THEN 0 ELSE Head(d).n * Head(d).row.TotBytes + sum_TotBytes(Tail(d))

\* Series.count() of the column StartTime: the rows whose StartTime is not null
RECURSIVE count_StartTime(_)
count_StartTime(d) ==
  IF d = <<>> THEN 0
  ELSE (IF Head(d).row.StartTime # NaT THEN Head(d).n ELSE 0) + count_StartTime(Tail(d))

\* the keys of groupby('SrcAddr')
group_keys(d) == {d[i].row.SrcAddr : i \in 1..Len(d)}

IsDns(row) == row.DstPort = 53

\* a mean, kept as the quotient num / den
Mean(num, den) == [num |-> num, den |-> den]

MeanAbove(q, bound) == q.num > bound * q.den

_detect_dns_tunneling(d) ==
  LET dns_traffic == SelectSeq(d, LAMBDA b : IsDns(b.row))
      group(src) == SelectSeq(dns_traffic, LAMBDA b : b.row.SrcAddr = src)
      total_bytes(src) == sum_TotBytes(group(src))
      avg_bytes(src) == Mean(sum_TotBytes(group(src)), len(group(src)))
      query_count(src) == count_StartTime(group(src))
      suspicious_dns ==
        {src \in group_keys(dns_traffic) :
           MeanAbove(avg_bytes(src), DnsAvgBytes) \/ query_count(src) > DnsQueryCount}
  IN  IF len(dns_traffic) = 0
        THEN [dns_tunneling_detected |-> FALSE]
        ELSE [suspicious_dns_clients |->
                [total_bytes |-> [src \in suspicious_dns |-> total_bytes(src)],
                 avg_bytes |-> [src \in suspicious_dns |-> avg_bytes(src)],
                 query_count |-> [src \in suspicious_dns |-> query_count(src)]],
              total_suspicious |-> Cardinality(suspicious_dns)]

InitDns ==
  /\ pc = "call"
  /\ df \in Datasets
  /\ findings = None
  /\ arg = <<>> /\ ret = None
  /\ ParserIdle

\* the call _detect_dns_tunneling(df)
DetectDnsTunneling ==
  /\ pc = "call"
  /\ pc' = "ret"
  /\ findings' = _detect_dns_tunneling(df)
  /\ UNCHANGED <<lines, flows, result, err, log, arg, ret, df, scaler, fs>>

NextDns == DetectDnsTunneling

SpecDns == InitDns /\ [][NextDns]_vars

\* ---------------------------------------------------------------------
\* Properties of parse_biargus_file
\* ---------------------------------------------------------------------
IsBlank(text) == \A i \in 1..Len(text) : text[i] \in Whitespace

\* the first character that is not whitespace is the comment marker
IsComment(text) ==
  \E i \in 1..Len(text) : text[i] = "#" /\ \A j \in 1..(i - 1) : text[j] \in Whitespace

IsDataLine(text) == ~IsBlank(text) /\ ~IsComment(text)

Count(text, cs) == Cardinality({i \in 1..Len(text) : text[i] \in cs})

\* the number of fields of a line: one more than its commas, or the
\* number of its whitespace-separated words when it has no comma
NumFields(text) ==
  IF Count(text, {","}) > 0
    THEN Count(text, {","}) + 1
    ELSE Cardinality({i \in 1..Len(text) :
                        /\ text[i] \notin Whitespace
                        /\ (i = 1 \/ text[i - 1] \in Whitespace)})

HasMinFields(text) == NumFields(text) >= 14

DataMinFields(text) == IsDataLine(text) /\ HasMinFields(text)

\* the records of the lines of ls that parse, in order
RECURSIVE RecordsFrom(_)
RecordsFrom(ls) ==
  IF ls = <<>> THEN <<>>
  ELSE LET r == _parse_netflow_line(Head(ls))
       IN  (IF r.tag = "ok" THEN <<r.val>> ELSE <<>>) \o RecordsFrom(Tail(ls))

NoWarning == \A k \in 1..Len(log) : log[k].level # "warning"

\* C2: a line that splits into fewer than 14 fields yields None, adds
\* nothing to the batch and raises nothing, so the batch is exactly the
\* records of the data lines with at least 14 fields.
C2_ShortLineDropped ==
  /\ \A i \in 1..Len(lines) :
       NumFields(lines[i]) < 14 => _parse_netflow_line(strip(lines[i])) = None
  /\ flows = RecordsFrom(SelectSeq(lines, DataMinFields))
  /\ NoWarning

C2_Witness ==
  /\ pc = "done" /\ result.tag = "ok"
  /\ Len(lines) = 3 /\ Len(flows) = 2
  /\ IsDataLine(lines[2]) /\ NumFields(lines[2]) = 3

\* a numeric field that is neither the wildcard nor a number
BadNumeric(text) ==
  LET f == fields_of(strip(text))
  IN  /\ Len(f) >= 14
      /\ \/ f[2] # Chars("*") /\ float(f[2]).tag = "raise"
         \/ \E k \in {12, 13, 14} : f[k] # Chars("*") /\ int(f[k]).tag = "raise"

DataNoBadNumeric(text) == IsDataLine(text) /\ ~BadNumeric(text)

\* C3: a line with a non-numeric, non-wildcard token in a numeric field is
\* rejected whole, and the lines after it are parsed as usual: the batch
\* is exactly the records of the other data lines.
C3_BadNumericRejected ==
  /\ \A i \in 1..Len(lines) :
       BadNumeric(lines[i]) => _parse_netflow_line(strip(lines[i])) = None
  /\ flows = RecordsFrom(SelectSeq(lines, DataNoBadNumeric))
  /\ NoWarning

C3_Witness ==
  /\ pc = "done" /\ result.tag = "ok"
  /\ Len(lines) = 3 /\ Len(result.val) = 2
  /\ IsDataLine(lines[2]) /\ BadNumeric(lines[2])
  /\ fields_of(lines[2])[14] = Chars("6.0")

SameFlow(row, flow) ==
  /\ row.SrcAddr = flow.SrcAddr /\ row.DstAddr = flow.DstAddr
  /\ row.Proto = flow.Proto /\ row.Dur = flow.Dur
  /\ row.TotPkts = flow.TotPkts /\ row.TotBytes = flow.TotBytes
  /\ row.SrcBytes = flow.SrcBytes /\ row.Label = flow.Label

\* C8: the dataset holds exactly one record per line that is neither blank
\* nor a comment and that parses, in file order; blank and comment lines
\* are never reported.
C8_OneRecordPerDataLine ==
  LET expected == RecordsFrom(SelectSeq(lines, IsDataLine))
  IN  /\ flows = expected
      /\ (pc = "done" /\ result.tag = "ok") =>
            /\ Len(result.val) = Len(expected)
            /\ \A i \in 1..Len(expected) : SameFlow(result.val[i], expected[i])
      /\ \A k \in 1..Len(log) :
            log[k].line_num # 0 => IsDataLine(lines[log[k].line_num])

\* a file of three lines, one of them a comment, yields two records
C8_Witness ==
  /\ pc = "done" /\ result.tag = "ok"
  /\ Len(lines) = 3 /\ Len(result.val) = 2
  /\ IsComment(lines[2]) /\ HasMinFields(lines[2])
  /\ result.val[1].SrcAddr # result.val[2].SrcAddr

\* C9: the result is None after an I/O failure, whatever was parsed before
\* it, and when no line yields a record; a returned dataset is never empty.
C9_FailureReturnsNone ==
  pc = "done" =>
    /\ err # None => result = None
    /\ flows = <<>> => result = None
    /\ result # None => result.tag = "ok" /\ Len(result.val) >= 1

C9_Witness ==
  pc = "done" /\ err # None /\ Len(flows) >= 2 /\ result = None

\* ---------------------------------------------------------------------
\* Properties of _parse_netflow_line
\* ---------------------------------------------------------------------
Wildcard == Chars("*")

ZeroFloat == [m |-> 0, e |-> 0]

\* each numeric field holds the wildcard or a number
NumericFieldsFine(f) ==
  /\ f[2] = Wildcard \/ float(f[2]).tag = "ok"
  /\ \A k \in {12, 13, 14} : f[k] = Wildcard \/ int(f[k]).tag = "ok"

\* C1: on a line of at least 14 fields a wildcard in a numeric position
\* becomes 0.0 / 0 in the record; the call never raises, and it returns a
\* record whenever every numeric field holds the wildcard or a number, so a
\* wildcard never causes the rejection.
C1_WildcardIsZero ==
  (pc = "ret" /\ NumFields(arg.line) >= 14) =>
    LET f == fields_of(arg.line)
    IN  /\ ret.tag # "raise"
        /\ NumericFieldsFine(f) => ret.tag = "ok"
        /\ ret.tag = "ok" =>
             /\ f[2] = Wildcard => ret.val.Dur = ZeroFloat
             /\ f[12] = Wildcard => ret.val.TotPkts = 0
             /\ f[13] = Wildcard => ret.val.TotBytes = 0
             /\ f[14] = Wildcard => ret.val.SrcBytes = 0

C1_Witness ==
  /\ pc = "ret" /\ ret.tag = "ok"
  /\ arg.pieces[2] = Wildcard /\ arg.pieces[12] = Wildcard
  /\ arg.pieces[13] = Wildcard /\ arg.pieces[14] = Wildcard
  /\ ret.val.Dur = ZeroFloat /\ ret.val.SrcBytes = 0

HasComma(text) == Count(text, {","}) > 0

\* a field text that both formats can carry: not empty, no whitespace, no comma
PlainField(t) == t # <<>> /\ Count(t, Whitespace \cup {","}) = 0

AllPlain(ps) == \A i \in 1..Len(ps) : PlainField(ps[i])

NoCommaInside(ps) == \A i \in 1..Len(ps) : ~HasComma(ps[i])

\* the record holds the fields of the list f at their fixed positions
Positional(rec, f) ==
  /\ rec.StartTime = f[1] /\ rec.Proto = f[3] /\ rec.SrcAddr = f[4]
  /\ rec.Sport = f[5] /\ rec.Dir = f[6] /\ rec.DstAddr = f[7]
  /\ rec.Dport = f[8] /\ rec.State = f[9] /\ rec.sTos = f[10]
  /\ rec.dTos = f[11]
  /\ rec.Dur = (IF f[2] = Wildcard THEN ZeroFloat ELSE float(f[2]).val)
  /\ rec.TotPkts = (IF f[12] = Wildcard THEN 0 ELSE int(f[12]).val)
  /\ rec.TotBytes = (IF f[13] = Wildcard THEN 0 ELSE int(f[13]).val)
  /\ rec.SrcBytes = (IF f[14] = Wildcard THEN 0 ELSE int(f[14]).val)
  /\ rec.Label = (IF Len(f) >= 15 THEN f[15] ELSE Chars("Unknown"))

\* the splitting rule: a line with a comma is cut at its commas only and
\* the fields trimmed; a line without one is cut at its runs of whitespace;
\* the record takes its fields from that list in the fixed order
SplitRule ==
  LET trimmed == [i \in 1..Len(arg.pieces) |-> strip(arg.pieces[i])]
  IN  /\ (arg.sep = Chars(",") /\ Len(arg.pieces) >= 2 /\ NoCommaInside(arg.pieces)) =>
            /\ fields_of(arg.line) = trimmed
            /\ ret.tag = "ok" => Positional(ret.val, trimmed)
      /\ (arg.sep # Chars(",") /\ AllPlain(arg.pieces)) =>
            /\ fields_of(arg.line) = arg.pieces
            /\ ret.tag = "ok" => Positional(ret.val, arg.pieces)

SameInBothFormats ==
  /\ ret = _parse_netflow_line(write_line(arg.pieces, Chars(","), Chars("")))
  /\ ret = _parse_netflow_line(write_line(arg.pieces, Chars(" "), Chars("")))

\* C4 as stated: the splitting rule holds, and the comma form and the
\* whitespace form of any field list give the same record.
C4_AnyRecordSameInBothFormats ==
  pc = "ret" => SplitRule /\ SameInBothFormats

\* C4: the splitting rule holds, and the comma form and the whitespace
\* form of a field list give the same record when every field is
\* non-empty and free of whitespace and commas.
C4_SplitPerLine ==
  pc = "ret" => SplitRule /\ (AllPlain(arg.pieces) => SameInBothFormats)

C4_Witness ==
  /\ pc = "ret" /\ ret.tag = "ok"
  /\ arg.sep = Chars("\t") /\ AllPlain(arg.pieces) /\ Len(arg.pieces) = 15
  /\ ret.val.Label = Chars("Normal")

\* ---------------------------------------------------------------------
\* Properties of the enrichment functions
\* ---------------------------------------------------------------------
Categories == {"Normal", "Botnet", "C&C", "Background", "Other", "Unknown"}

\* the word w occurs in the text, whatever the case of the text's letters
Mentions(text, w) ==
  \E i \in 0..(Len(text) - Len(w)) : \A k \in 1..Len(w) : LowerOf(text[i + k]) = w[k]

StaysUnknown(label) == label = NaN \/ label = Chars("Unknown")

\* C5: the category is Unknown for a missing label and for 'Unknown', and
\* otherwise the first that applies of: Botnet ('botnet'), C&C ('c&c' or
\* 'cc'), Normal ('normal'), Background ('background'), Other; case is
\* ignored, and the result is one of the six categories.
C5_LabelPriority ==
  pc = "ret" =>
    LET c == ret.val
        botnet == ~StaysUnknown(arg) /\ Mentions(arg, Chars("botnet"))
        cc == ~StaysUnknown(arg) /\ (Mentions(arg, Chars("c&c")) \/ Mentions(arg, Chars("cc")))
        normal == ~StaysUnknown(arg) /\ Mentions(arg, Chars("normal"))
        background == ~StaysUnknown(arg) /\ Mentions(arg, Chars("background"))
    IN  /\ c \in Categories
        /\ c = "Unknown" <=> StaysUnknown(arg)
        /\ c = "Botnet" <=> botnet
        /\ c = "C&C" <=> (cc /\ ~botnet)
        /\ c = "Normal" <=> (normal /\ ~botnet /\ ~cc)
        /\ c = "Background" <=> (background /\ ~botnet /\ ~cc /\ ~normal)

C5_Witness ==
  /\ pc = "ret" /\ ret.val = "Botnet"
  /\ arg = Chars("NORMALBotnet")

\* the service table of the claim
ServicePort(name) ==
  CASE name = Chars("http") -> 80 [] name = Chars("https") -> 443
    [] name = Chars("ftp") -> 21 [] name = Chars("ssh") -> 22
    [] name = Chars("telnet") -> 23 [] name = Chars("smtp") -> 25
    [] name = Chars("dns") -> 53 [] name = Chars("pop3") -> 110
    [] name = Chars("imap") -> 143 [] name = Chars("snmp") -> 161
    [] OTHER -> 0

AllDigits(text) == text # NaN /\ text # <<>> /\ Count(text, Digits) = Len(text)

RECURSIVE NumberOf(_)
NumberOf(text) ==
  IF text = <<>> THEN 0
  ELSE DigitVal(Head(text)) * 10 ^ (Len(text) - 1) + NumberOf(Tail(text))

\* C6: an all-digit token yields its value, a service name of the table
\* (in any case) yields the table's port, every other token yields 0.
C6_PortResolution ==
  pc = "ret" =>
    ret.val = (IF arg = NaN THEN 0
               ELSE IF AllDigits(arg) THEN NumberOf(arg)
               ELSE ServicePort([i \in 1..Len(arg) |-> LowerOf(arg[i])]))

C6_Witness == pc = "ret" /\ arg = Chars("Https") /\ ret.val = 443

\* the octets of a well-formed dotted quad
Octets(text) == ip_address(text).val

WellFormed(text) == ip_address(text).tag = "ok"

Rfc1918(o) ==
  \/ o[1] = 10
  \/ o[1] = 172 /\ o[2] \in 16..31
  \/ o[1] = 192 /\ o[2] = 168

\* the other special-purpose blocks that ipaddress counts as private
OtherSpecialPurpose(o) ==
  \/ o[1] = 0
  \/ o[1] = 127
  \/ o[1] = 169 /\ o[2] = 254
  \/ o[1] = 192 /\ o[2] = 0 /\ o[3] = 0 /\ o[4] \in (0..7) \cup {170, 171}
  \/ o[1] = 192 /\ o[2] = 0 /\ o[3] = 2
  \/ o[1] = 198 /\ o[2] \in {18, 19}
  \/ o[1] = 198 /\ o[2] = 51 /\ o[3] = 100
  \/ o[1] = 203 /\ o[2] = 0 /\ o[3] = 113
  \/ o[1] >= 240

RECURSIVE DnsRecords(_, _)
DnsRecords(d, src) ==
  IF d = <<>> THEN 0
  ELSE (IF Head(d).row.DstPort = 53 /\ Head(d).row.SrcAddr = src THEN Head(d).n ELSE 0)
       + DnsRecords(Tail(d), src)

RECURSIVE DnsBytes(_, _)
DnsBytes(d, src) ==
  IF d = <<>> THEN 0
  ELSE (IF Head(d).row.DstPort = 53 /\ Head(d).row.SrcAddr = src
          THEN Head(d).n * Head(d).row.TotBytes ELSE 0)
       + DnsBytes(Tail(d), src)

Sources(d) == {d[i].row.SrcAddr : i \in 1..Len(d)}

NoDnsTraffic(d) == \A src \in Sources(d) : DnsRecords(d, src) = 0

\* C10: without port-53 records the result is the 'not applicable' marker
\* and holds no suspicious-clients mapping; otherwise the suspicious
\* clients are exactly the sources whose port-53 records have mean total
\* bytes > 100 or number more than 1000, and total_suspicious counts them.
C10_DnsTunneling ==
  pc = "ret" =>
    IF NoDnsTraffic(df)
      THEN findings = [dns_tunneling_detected |-> FALSE]
      ELSE LET expected ==
                 {src \in Sources(df) :
                    /\ DnsRecords(df, src) > 0
                    /\ \/ DnsBytes(df, src) > 100 * DnsRecords(df, src)
                       \/ DnsRecords(df, src) > 1000}
           IN  /\ DOMAIN findings = {"suspicious_dns_clients", "total_suspicious"}
               /\ DOMAIN findings.suspicious_dns_clients.query_count = expected
               /\ DOMAIN findings.suspicious_dns_clients.avg_bytes = expected
               /\ DOMAIN findings.suspicious_dns_clients.total_bytes = expected
               /\ findings.total_suspicious = Cardinality(expected)

\* ---------------------------------------------------------------------
\* _detect_periodic_beaconing
\* ---------------------------------------------------------------------
\* A dataset is a sequence of rows.  A timestamp is a whole number of
\* seconds, Timestamp(t), or NaT.
MaxRecords == 7

\* len(timestamps) > 5
BeaconMinRecords == 5

\* interval_std < interval_mean * 0.3, the factor 0.3 as JitterNum / JitterDen
JitterNum == 3

JitterDen == 10

Timestamp(t) == Ok(t)

Client == Chars("10.0.0.1")

Server1 == Chars("8.8.8.8")

Server2 == Chars("8.8.4.4")

StartSecond == 35213

Gaps == {0, 60, 90}

Arrivals == UNION {[1..k -> Gaps] : k \in (BeaconMinRecords - 1)..(MaxRecords - 1)}

RECURSIVE cumulative(_, _)
cumulative(t, gaps) ==
  IF gaps = <<>> THEN <<t>> ELSE <<t>> \o cumulative(t + Head(gaps), Tail(gaps))

reverse(s) == [i \in 1..Len(s) |-> s[Len(s) + 1 - i]]

Orders == {"ascending", "descending"}

arrange(ts, order) == IF order = "ascending" THEN ts ELSE reverse(ts)

stamps(ts, null) ==
  [i \in 1..Len(ts) |-> IF null /\ i = 1 THEN NaT ELSE Timestamp(ts[i])]

PairRows(src, dst, times) ==
  [i \in 1..Len(times) |-> [SrcAddr |-> src, DstAddr |-> dst, StartTime |-> times[i]]]

BeaconDatasets ==
  {PairRows(Client, Server2, other)
     \o PairRows(Client, Server1, stamps(arrange(cumulative(StartSecond, g), o), null)) :
       g \in Arrivals, o \in Orders, null \in BOOLEAN,
       other \in {<<>>, <<Timestamp(StartSecond)>>}}

\* a < b on timestamps; every comparison with NaT is False
before(a, b) == a # NaT /\ b # NaT /\ a.val < b.val

RECURSIVE insert(_, _)
insert(t, s) ==
  IF s = <<>> THEN <<t>>
  ELSE IF before(Head(s), t) THEN <<Head(s)>> \o insert(t, Tail(s))
  ELSE <<t>> \o s

\* list.sort(), with no change
sort_unsorted(s) == s

\* list.sort(); wherever the sort leaves a NaT, it has a neighbour in the list
RECURSIVE sort(_)
sort(s) == IF s = <<>> THEN <<>> ELSE insert(Head(s), sort(Tail(s)))

\* the float nan
nan == [tag |-> "nan"]

\* (b - a).total_seconds(); nan when either is NaT
total_seconds(a, b) == IF a = NaT \/ b = NaT THEN nan ELSE Ok(b.val - a.val)

intervals_of(timestamps) ==
  [i \in 1..(Len(timestamps) - 1) |-> total_seconds(timestamps[i], timestamps[i + 1])]

RECURSIVE sum(_)
sum(xs) == IF xs = <<>> THEN 0 ELSE Head(xs) + sum(Tail(xs))

squares(xs) == [i \in 1..Len(xs) |-> xs[i] * xs[i]]

has_nan(xs) == \E i \in 1..Len(xs) : xs[i] = nan

values(xs) == [i \in 1..Len(xs) |-> xs[i].val]

\* np.mean(xs)
np_mean(xs) == IF has_nan(xs) THEN nan ELSE Mean(sum(values(xs)), Len(xs))

\* np.std(xs) < np.mean(xs) * JitterNum / JitterDen, where np.std is the
\* population standard deviation sqrt(mean(x^2) - mean(x)^2): with k = len(xs)
\* and S = sum(xs) it is sqrt(k * sum(x^2) - S^2) < S * JitterNum / JitterDen.
\* A comparison with nan is False.
std_below_mean(xs) ==
  /\ ~has_nan(xs)
  /\ LET x == values(xs)
     IN  /\ sum(x) > 0
         /\ JitterDen * JitterDen * (Len(x) * sum(squares(x)) - sum(x) * sum(x))
              < JitterNum * JitterNum * sum(x) * sum(x)

\* the keys of groupby(['SrcAddr', 'DstAddr'])
pair_keys(d) == {<<d[i].SrcAddr, d[i].DstAddr>> : i \in 1..Len(d)}

\* groupby(['SrcAddr', 'DstAddr'])['StartTime'].apply(list)
comm_pairs(d, key) ==
  LET group == SelectSeq(d, LAMBDA r : <<r.SrcAddr, r.DstAddr>> = key)
  IN  [i \in 1..Len(group) |-> group[i].StartTime]

_detect_periodic_beaconing(d) ==
  LET timestamps(key) == sort(comm_pairs(d, key))
      intervals(key) == intervals_of(timestamps(key))
      beaconing_pairs ==
        {[src |-> key[1],
          dst |-> key[2],
          avg_interval |-> np_mean(intervals(key)),
          communications |-> Len(comm_pairs(d, key))] :
            key \in {k \in pair_keys(d) :
                       /\ Len(comm_pairs(d, k)) > BeaconMinRecords
                       /\ Len(intervals(k)) > 1
                       /\ std_below_mean(intervals(k))}}
  IN  [beaconing_pairs |-> beaconing_pairs,
       total_beaconing |-> Cardinality(beaconing_pairs)]

InitBeacon ==
  /\ pc = "call"
  /\ df \in BeaconDatasets
  /\ findings = None
  /\ arg = <<>> /\ ret = None
  /\ ParserIdle

\* the call _detect_periodic_beaconing(df)
DetectPeriodicBeaconing ==
  /\ pc = "call"
  /\ pc' = "ret"
  /\ findings' = _detect_periodic_beaconing(df)
  /\ UNCHANGED <<lines, flows, result, err, log, arg, ret, df, scaler, fs>>

NextBeacon == DetectPeriodicBeaconing

SpecBeacon == InitBeacon /\ [][NextBeacon]_vars

\* ---------------------------------------------------------------------
\* Properties of _detect_periodic_beaconing
\* ---------------------------------------------------------------------
Pairs(d) == {<<d[i].SrcAddr, d[i].DstAddr>> : i \in 1..Len(d)}

RecordsOf(d, p) == {i \in 1..Len(d) : d[i].SrcAddr = p[1] /\ d[i].DstAddr = p[2]}

AllTimed(d, p) == \A i \in RecordsOf(d, p) : d[i].StartTime # NaT

\* the k-th smallest timestamp of the pair's records
Kth(d, p, k) ==
  CHOOSE v \in {d[i].StartTime.val : i \in RecordsOf(d, p)} :
    /\ Cardinality({i \in RecordsOf(d, p) : d[i].StartTime.val < v}) < k
    /\ Cardinality({i \in RecordsOf(d, p) : d[i].StartTime.val <= v}) >= k

\* the inter-arrival intervals between time-sorted consecutive timestamps
Intervals(d, p) ==
  LET sorted == [k \in 1..Cardinality(RecordsOf(d, p)) |-> Kth(d, p, k)]
  IN  [k \in 1..(Len(sorted) - 1) |-> sorted[k + 1] - sorted[k]]

RECURSIVE Total(_)
Total(xs) == IF xs = <<>> THEN 0 ELSE Head(xs) + Total(Tail(xs))

\* n times the deviation of each interval from the mean S / n
Deviations(xs) == [k \in 1..Len(xs) |-> Len(xs) * xs[k] - Total(xs)]

Squared(xs) == [k \in 1..Len(xs) |-> xs[k] * xs[k]]

\* standard deviation < 30% of the mean: the variance is
\* Total(Squared(Deviations)) / n^3 and the mean S / n, so the test is
\* Total(Squared(Deviations)) / n^3 < (9 / 100) * S^2 / n^2
LowJitter(xs) ==
  100 * Total(Squared(Deviations(xs))) < 9 * Len(xs) * Total(xs) * Total(xs)

Beaconing(d, p) ==
  /\ Cardinality(RecordsOf(d, p)) > 5
  /\ AllTimed(d, p)
  /\ LowJitter(Intervals(d, p))

Reported(p) ==
  \E b \in findings.beaconing_pairs : b.src = p[1] /\ b.dst = p[2]

SameQuotient(q, num, den) == q # nan /\ q.num * den = num * q.den

\* C11: a (source, destination) pair is reported iff it has more than 5
\* records and the standard deviation of the intervals between its
\* time-sorted consecutive timestamps is strictly less than 30% of their
\* mean; a reported pair carries that mean as avg_interval and its record
\* count as communications, and no pair is reported twice.
C11_Beaconing ==
  pc = "ret" =>
    /\ \A p \in Pairs(df) : Reported(p) <=> Beaconing(df, p)
    /\ \A b \in findings.beaconing_pairs :
         LET p == <<b.src, b.dst>>
         IN  /\ p \in Pairs(df)
             /\ SameQuotient(b.avg_interval,
                             Total(Intervals(df, p)), Len(Intervals(df, p)))
             /\ b.communications = Cardinality(RecordsOf(df, p))
    /\ findings.total_beaconing = Cardinality({p \in Pairs(df) : Beaconing(df, p)})

\* six records at exact 60-second spacing, listed latest first, are
\* reported with avg_interval 60
C11_Witness ==
  /\ pc = "ret"
  /\ Len(df) = 6
  /\ \A i \in 1..6 : df[i].StartTime = Timestamp(StartSecond + 60 * (6 - i))
  /\ \E b \in findings.beaconing_pairs :
       /\ b.src = Client /\ b.dst = Server1
       /\ SameQuotient(b.avg_interval, 60, 1)
       /\ b.communications = 6

\* ---------------------------------------------------------------------
\* _detect_c2_communication
\* ---------------------------------------------------------------------
\* df['TotBytes'] < 1000
C2SmallBytes == 1000

\* c2_candidates['frequency'] > 10
C2Frequency == 10

\* c2_candidates['TotBytes'] < 500
C2AvgBytes == 500

ShortRun == 10

C2Rows ==
  [DstAddr : {Server1, Server2},
   DstIP_Private : BOOLEAN,
   TotBytes : {400, 600, 1000},
   Dur : {2},
   StartTime : {SomeTime, NaT}]

C2Datasets ==
  UNION {[1..k -> [row : C2Rows, n : {1, ShortRun}]] : k \in 0..MaxBlocks}

\* Series.sum() of the column Dur
RECURSIVE sum_Dur(_)
sum_Dur(d) ==
  IF d = <<>> THEN 0 ELSE Head(d).n * Head(d).row.Dur + sum_Dur(Tail(d))

\* the keys of groupby('DstAddr')
dst_keys(d) == {d[i].row.DstAddr : i \in 1..Len(d)}

MeanBelow(q, bound) == q.num < bound * q.den

_detect_c2_communication(d) ==
  LET external_comms ==
        SelectSeq(d, LAMBDA b : ~b.row.DstIP_Private /\ b.row.TotBytes < C2SmallBytes)
      group(dst) == SelectSeq(external_comms, LAMBDA b : b.row.DstAddr = dst)
      frequency(dst) == count_StartTime(group(dst))
      TotBytes(dst) == Mean(sum_TotBytes(group(dst)), len(group(dst)))
      Dur(dst) == Mean(sum_Dur(group(dst)), len(group(dst)))
      c2_suspects ==
        {dst \in dst_keys(external_comms) :
           frequency(dst) > C2Frequency /\ MeanBelow(TotBytes(dst), C2AvgBytes)}
  IN  [potential_c2_servers |->
         [dst \in c2_suspects |->
            [frequency |-> frequency(dst), TotBytes |-> TotBytes(dst), Dur |-> Dur(dst)]],
       total_suspects |-> Cardinality(c2_suspects)]

InitC2 ==
  /\ pc = "call"
  /\ df \in C2Datasets
  /\ findings = None
  /\ arg = <<>> /\ ret = None
  /\ ParserIdle

\* the call _detect_c2_communication(df)
DetectC2Communication ==
  /\ pc = "call"
  /\ pc' = "ret"
  /\ findings' = _detect_c2_communication(df)
  /\ UNCHANGED <<lines, flows, result, err, log, arg, ret, df, scaler, fs>>

NextC2 == DetectC2Communication

SpecC2 == InitC2 /\ [][NextC2]_vars

\* ---------------------------------------------------------------------
\* Properties of _detect_c2_communication
\* ---------------------------------------------------------------------
IsSmallExternal(row) == ~row.DstIP_Private /\ row.TotBytes < 1000

\* the small external records sent to dst, and their total bytes
RECURSIVE C2Records(_, _)
C2Records(d, dst) ==
  IF d = <<>> THEN 0
  ELSE (IF IsSmallExternal(Head(d).row) /\ Head(d).row.DstAddr = dst THEN Head(d).n ELSE 0)
       + C2Records(Tail(d), dst)

RECURSIVE C2Bytes(_, _)
C2Bytes(d, dst) ==
  IF d = <<>> THEN 0
  ELSE (IF IsSmallExternal(Head(d).row) /\ Head(d).row.DstAddr = dst
          THEN Head(d).n * Head(d).row.TotBytes ELSE 0)
       + C2Bytes(Tail(d), dst)

Destinations(d) == {d[i].row.DstAddr : i \in 1..Len(d)}

\* C12: the reported C2 suspects are exactly the destinations that, among
\* the records with a non-private destination and total bytes < 1000, have
\* at least 10 records with mean total bytes < 500, and total_suspects
\* counts them.
C12_C2Suspects ==
  pc = "ret" =>
    LET expected ==
          {dst \in Destinations(df) :
             /\ C2Records(df, dst) >= 10
             /\ C2Bytes(df, dst) < 500 * C2Records(df, dst)}
    IN  /\ DOMAIN findings.potential_c2_servers = expected
        /\ findings.total_suspects = Cardinality(expected)

\* ---------------------------------------------------------------------
\* _detect_port_scanning
\* ---------------------------------------------------------------------
\* A block [row, n, ports] stands for n consecutive rows equal to row
\* except for the destination port, which sweeps row.DstPort,
\* row.DstPort + 1, ... and starts again after `ports' rows.

\* port_scan_candidates['DstPort'] > 10
ScanPorts == 10

\* port_scan_candidates['connections'] > 20
ScanConnections == 20

LongRun == 20

ScanRows ==
  [SrcAddr : {Client},
   DstAddr : {Server1, Server2},
   DstPort : {1, 11},
   StartTime : {SomeTime, NaT}]

ScanDatasets ==
  UNION {[1..k -> [row : ScanRows, n : {1, ShortRun, LongRun}, ports : {1, ShortRun}]] :
           k \in 0..MaxBlocks}

\* the destination ports of the rows of a block
ports_of(b) ==
  {b.row.DstPort + i : i \in 0..((IF b.n < b.ports THEN b.n ELSE b.ports) - 1)}

\* Series.nunique() of the column DstPort
nunique_DstPort(d) == Cardinality(UNION {ports_of(d[i]) : i \in 1..Len(d)})

\* the keys of groupby(['SrcAddr', 'DstAddr'])
scan_keys(d) == {<<d[i].row.SrcAddr, d[i].row.DstAddr>> : i \in 1..Len(d)}

\* f"{src}->{dst}"
scan_key(src, dst) == src \o <<"-", ">">> \o dst

_detect_port_scanning(d) ==
  LET group(key) ==
        SelectSeq(d, LAMBDA b : <<b.row.SrcAddr, b.row.DstAddr>> = key)
      DstPort(key) == nunique_DstPort(group(key))
      connections(key) == count_StartTime(group(key))
      port_scans ==
        {key \in scan_keys(d) :
           DstPort(key) > ScanPorts /\ connections(key) > ScanConnections}
      names == {scan_key(key[1], key[2]) : key \in port_scans}
      key_of(name) == CHOOSE key \in port_scans : scan_key(key[1], key[2]) = name
  IN  [port_scan_activities |->
         [name \in names |->
            [unique_ports |-> DstPort(key_of(name)),
             total_connections |-> connections(key_of(name))]],
       total_scanners |-> Cardinality(port_scans)]

InitScan ==
  /\ pc = "call"
  /\ df \in ScanDatasets
  /\ findings = None
  /\ arg = <<>> /\ ret = None
  /\ ParserIdle

\* the call _detect_port_scanning(df)
DetectPortScanning ==
  /\ pc = "call"
  /\ pc' = "ret"
  /\ findings' = _detect_port_scanning(df)
  /\ UNCHANGED <<lines, flows, result, err, log, arg, ret, df, scaler, fs>>

NextScan == DetectPortScanning

SpecScan == InitScan /\ [][NextScan]_vars

\* ---------------------------------------------------------------------
\* Properties of _detect_port_scanning
\* ---------------------------------------------------------------------
ScanPairs(d) == {<<d[i].row.SrcAddr, d[i].row.DstAddr>> : i \in 1..Len(d)}

OfPair(b, p) == b.row.SrcAddr = p[1] /\ b.row.DstAddr = p[2]

\* the records of the pair
RECURSIVE PairRecords(_, _)
PairRecords(d, p) ==
  IF d = <<>> THEN 0
  ELSE (IF OfPair(Head(d), p) THEN Head(d).n ELSE 0) + PairRecords(Tail(d), p)

\* the destination ports that the records of the pair touch
PortsTouched(d, p) ==
  {q \in 1..(11 + ShortRun) :
     \E i \in 1..Len(d) :
       /\ OfPair(d[i], p)
       /\ \E j \in 0..(d[i].n - 1) : q = d[i].row.DstPort + (j % d[i].ports)}

Arrow(p) == p[1] \o Chars("->") \o p[2]

\* C13: the reported port scans, keyed 'src->dst', are exactly the pairs
\* whose records touch more than 10 distinct destination ports and number
\* more than 20; total_scanners counts them.
C13_PortScanning ==
  pc = "ret" =>
    LET expected ==
          {p \in ScanPairs(df) :
             Cardinality(PortsTouched(df, p)) > 10 /\ PairRecords(df, p) > 20}
    IN  /\ DOMAIN findings.port_scan_activities = {Arrow(p) : p \in expected}
        /\ findings.total_scanners = Cardinality(expected)

\* ---------------------------------------------------------------------
\* _detect_data_exfiltration
\* ---------------------------------------------------------------------
MaxSenders == 11

\* quantile(0.95), as QuantilePct / 100
QuantilePct == 95

\* nlargest(10, 'SrcBytes')
TopSources == 10

Numeral(n) ==
  LET digit(k) == CHOOSE c \in Digits : DigitVal(c) = k
  IN  IF n < 10 THEN <<digit(n)>> ELSE <<digit(n \div 10), digit(n % 10)>>

Host(i) == Chars("10.0.1.") \o Numeral(i)

Workstation == Chars("10.0.0.9")

Inside == Chars("192.168.0.1")

Backgrounds == {0, 19, 300}

Amounts == {"rising", "falling", "flat"}

amount(i, pattern) ==
  CASE pattern = "rising" -> 1000 + 10 * i
    [] pattern = "falling" -> 2000 - 10 * i
    [] pattern = "flat" -> 1000

Placements == {"outside", "odd inside", "also inside"}

ExfilRow(src, dst, private, bytes) ==
  [SrcAddr |-> src, DstAddr |-> dst, DstIP_Private |-> private,
   SrcBytes |-> bytes, StartTime |-> SomeTime]

background(n) ==
  IF n = 0 THEN <<>> ELSE <<[row |-> ExfilRow(Workstation, Server2, FALSE, 10), n |-> n]>>

RECURSIVE senders(_, _, _, _)
senders(k, pattern, place, times) ==
  IF k = 0 THEN <<>>
  ELSE senders(k - 1, pattern, place, times)
       \o <<[row |-> IF place = "odd inside" /\ k % 2 = 1
                       THEN ExfilRow(Host(k), Inside, TRUE, amount(k, pattern))
                       ELSE ExfilRow(Host(k), Server1, FALSE, amount(k, pattern)),
             n |-> times]>>
       \o (IF place = "also inside"
             THEN <<[row |-> ExfilRow(Host(k), Inside, TRUE, 5000), n |-> 1]>>
             ELSE <<>>)

ExfilDatasets ==
  {background(bg) \o senders(k, pattern, place, times) :
     bg \in Backgrounds, k \in 0..MaxSenders, pattern \in Amounts,
     place \in Placements, times \in {1, 2}}

\* df, every record whatever its destination
outbound_all(d) == d

\* df[~df['DstIP_Private']]
outbound_of(d) == SelectSeq(d, LAMBDA b : ~b.row.DstIP_Private)

\* the k-th smallest value (k from 1) of the column SrcBytes
kth_SrcBytes(d, k) ==
  LET below(v) == len(SelectSeq(d, LAMBDA b : b.row.SrcBytes < v))
      upto(v) == len(SelectSeq(d, LAMBDA b : b.row.SrcBytes <= v))
  IN  CHOOSE v \in {d[i].row.SrcBytes : i \in 1..Len(d)} : below(v) < k /\ k <= upto(v)

\* Series.quantile(QuantilePct / 100) of the column SrcBytes, linear
\* interpolation between the two order statistics around position
\* (len - 1) * QuantilePct / 100; nan for an empty column
quantile_SrcBytes(d) ==
  IF len(d) = 0 THEN nan
  ELSE LET pos == (len(d) - 1) * QuantilePct
           lo == kth_SrcBytes(d, (pos \div 100) + 1)
           hi == IF pos % 100 = 0 THEN lo ELSE kth_SrcBytes(d, (pos \div 100) + 2)
       IN  Mean(100 * lo + (pos % 100) * (hi - lo), 100)

\* x > q; False when q is nan
Above(x, q) == q # nan /\ x * q.den > q.num

RECURSIVE sum_SrcBytes(_)
sum_SrcBytes(d) ==
  IF d = <<>> THEN 0 ELSE Head(d).n * Head(d).row.SrcBytes + sum_SrcBytes(Tail(d))

\* Series.nunique() of the column DstAddr
nunique_DstAddr(d) == Cardinality({d[i].row.DstAddr : i \in 1..Len(d)})

\* the order of characters in addresses
CharRank(c) ==
  IF c = "." THEN 0
  ELSE IF c \in Digits THEN 1 + DigitVal(c)
  ELSE LET letters == Chars("ABCDEFGHIJKLMNOPQRSTUVWXYZabcdefghijklmnopqrstuvwxyz")
       IN  10 + CHOOSE i \in 1..Len(letters) : letters[i] = c

\* a < b on strings
RECURSIVE LessText(_, _)
LessText(a, b) ==
  IF b = <<>> THEN FALSE
  ELSE IF a = <<>> THEN TRUE
  ELSE IF Head(a) = Head(b) THEN LessText(Tail(a), Tail(b))
  ELSE CharRank(Head(a)) < CharRank(Head(b))

\* the keys of groupby('SrcAddr'), in sorted order
RECURSIVE sorted_keys(_)
sorted_keys(S) ==
  IF S = {} THEN <<>>
  ELSE LET first == CHOOSE x \in S : \A y \in S : ~LessText(y, x)
       IN  <<first>> \o sorted_keys(S \ {first})

\* nlargest(n, column): the n keys with the largest value, largest first,
\* equal values in the order of keys
RECURSIVE nlargest(_, _, _)
nlargest(n, keys, value) ==
  IF n = 0 \/ keys = <<>> THEN <<>>
  ELSE LET i == CHOOSE i \in 1..Len(keys) :
                  /\ \A j \in 1..Len(keys) : value[keys[j]] <= value[keys[i]]
                  /\ \A j \in 1..(i - 1) : value[keys[j]] < value[keys[i]]
       IN  <<keys[i]>>
           \o nlargest(n - 1, SubSeq(keys, 1, i - 1) \o SubSeq(keys, i + 1, Len(keys)), value)

\* DataFrame.to_dict() of one column: the pairs key: value in row order
to_dict(keys, value) == [i \in 1..Len(keys) |-> [key |-> keys[i], value |-> value[keys[i]]]]

_detect_data_exfiltration(d) ==
  LET outbound == outbound_of(d)
      q == quantile_SrcBytes(outbound)
      large_transfers == SelectSeq(outbound, LAMBDA b : Above(b.row.SrcBytes, q))
      sources == {large_transfers[i].row.SrcAddr : i \in 1..Len(large_transfers)}
      group(src) == SelectSeq(large_transfers, LAMBDA b : b.row.SrcAddr = src)
      SrcBytes == [src \in sources |-> sum_SrcBytes(group(src))]
      DstAddr == [src \in sources |-> nunique_DstAddr(group(src))]
      sessions == [src \in sources |-> count_StartTime(group(src))]
      top == nlargest(TopSources, sorted_keys(sources), SrcBytes)
  IN  [potential_exfiltration |->
         [SrcBytes |-> to_dict(top, SrcBytes),
          DstAddr |-> to_dict(top, DstAddr),
          sessions |-> to_dict(top, sessions)],
       total_large_transfers |-> len(large_transfers)]

InitExfil ==
  /\ pc = "call"
  /\ df \in ExfilDatasets
  /\ findings = None
  /\ arg = <<>> /\ ret = None
  /\ ParserIdle

\* the call _detect_data_exfiltration(df)
DetectDataExfiltration ==
  /\ pc = "call"
  /\ pc' = "ret"
  /\ findings' = _detect_data_exfiltration(df)
  /\ UNCHANGED <<lines, flows, result, err, log, arg, ret, df, scaler, fs>>

NextExfil == DetectDataExfiltration

SpecExfil == InitExfil /\ [][NextExfil]_vars

\* ---------------------------------------------------------------------
\* Properties of _detect_data_exfiltration
\* ---------------------------------------------------------------------
IsOutside(b) == ~b.row.DstIP_Private

\* the records with a non-private destination whose source bytes are
\* below v, or at most v
RECURSIVE OutsideBelow(_, _)
OutsideBelow(d, v) ==
  IF d = <<>> THEN 0
  ELSE (IF IsOutside(Head(d)) /\ Head(d).row.SrcBytes < v THEN Head(d).n ELSE 0)
       + OutsideBelow(Tail(d), v)

RECURSIVE OutsideUpTo(_, _)
OutsideUpTo(d, v) ==
  IF d = <<>> THEN 0
  ELSE (IF IsOutside(Head(d)) /\ Head(d).row.SrcBytes <= v THEN Head(d).n ELSE 0)
       + OutsideUpTo(Tail(d), v)

OutsideValues(d) == {d[i].row.SrcBytes : i \in {j \in 1..Len(d) : IsOutside(d[j])}}

OutsideCount(d) == OutsideUpTo(d, 5000)

\* the k-th smallest source-byte value among those records
OrderStatistic(d, k) ==
  CHOOSE v \in OutsideValues(d) : OutsideBelow(d, v) < k /\ k <= OutsideUpTo(d, v)

\* 100 times the 0.95 quantile of the source bytes of those records: the
\* value at position 0.95 * (N - 1) of the sorted values, interpolated
Quantile95(d) ==
  LET h == 95 * (OutsideCount(d) - 1)
      k == h \div 100
      part == h % 100
  IN  IF part = 0 THEN 100 * OrderStatistic(d, k + 1)
      ELSE (100 - part) * OrderStatistic(d, k + 1) + part * OrderStatistic(d, k + 2)

\* the blocks of large transfers: records with a non-private destination
\* whose source bytes are above the quantile
LargeBlocks(d) ==
  IF OutsideCount(d) = 0 THEN {}
  ELSE LET q == Quantile95(d)
       IN  {i \in 1..Len(d) : IsOutside(d[i]) /\ 100 * d[i].row.SrcBytes > q}

SourcesOf(d, L) == {d[i].row.SrcAddr : i \in L}

\* the summed source bytes, and the number, of the records of blocks L
\* sent by src (by anyone when src is NaN)
RECURSIVE BytesOf(_, _, _, _)
BytesOf(d, L, src, i) ==
  IF i = 0 THEN 0
  ELSE (IF i \in L /\ d[i].row.SrcAddr = src THEN d[i].n * d[i].row.SrcBytes ELSE 0)
       + BytesOf(d, L, src, i - 1)

RECURSIVE RecordsIn(_, _, _, _)
RecordsIn(d, L, src, i) ==
  IF i = 0 THEN 0
  ELSE (IF i \in L /\ (src = NaN \/ d[i].row.SrcAddr = src) THEN d[i].n ELSE 0)
       + RecordsIn(d, L, src, i - 1)

DestinationsOf(d, L, src) == {d[i].row.DstAddr : i \in {j \in L : d[j].row.SrcAddr = src}}

Smaller(a, b) == IF a < b THEN a ELSE b

\* C14: only the records with a non-private destination count; the large
\* transfers are those of them whose source bytes are above their 0.95
\* quantile; the report lists min(10, number of sources of large
\* transfers) distinct sources, those with the largest summed source
\* bytes of large transfers, in descending order of that sum, and every
\* reported value is computed from large transfers to non-private
\* destinations alone.
C14_Exfiltration ==
  pc = "ret" =>
    LET rep == findings.potential_exfiltration
        large == LargeBlocks(df)
        sources == SourcesOf(df, large)
        listed == {rep.SrcBytes[i].key : i \in 1..Len(rep.SrcBytes)}
        total == [src \in sources |-> BytesOf(df, large, src, Len(df))]
    IN  /\ Len(rep.SrcBytes) = Smaller(10, Cardinality(sources))
        /\ Cardinality(listed) = Len(rep.SrcBytes)
        /\ listed \subseteq sources
        /\ \A i \in 1..Len(rep.SrcBytes) :
             /\ rep.SrcBytes[i].value = total[rep.SrcBytes[i].key]
             /\ \A j \in (i + 1)..Len(rep.SrcBytes) :
                  rep.SrcBytes[i].value >= rep.SrcBytes[j].value
             /\ \A src \in sources \ listed : rep.SrcBytes[i].value >= total[src]
        /\ Len(rep.DstAddr) = Len(rep.SrcBytes) /\ Len(rep.sessions) = Len(rep.SrcBytes)
        /\ \A i \in 1..Len(rep.SrcBytes) :
             /\ rep.DstAddr[i].key = rep.SrcBytes[i].key
             /\ rep.DstAddr[i].value
                  = Cardinality(DestinationsOf(df, large, rep.SrcBytes[i].key))
             /\ rep.sessions[i].key = rep.SrcBytes[i].key
             /\ rep.sessions[i].value = RecordsIn(df, large, rep.SrcBytes[i].key, Len(df))
        /\ findings.total_large_transfers = RecordsIn(df, large, NaN, Len(df))

\* eleven sources send large transfers outside, each also sends a larger
\* one to a private destination, and ten of them are reported
C14_Witness ==
  /\ pc = "ret"
  /\ Cardinality(SourcesOf(df, LargeBlocks(df))) = 11
  /\ \E i \in 1..Len(df) : df[i].row.DstIP_Private /\ df[i].row.SrcBytes = 5000
  /\ Len(findings.potential_exfiltration.SrcBytes) = 10
  /\ findings.potential_exfiltration.SrcBytes[1].value
       > findings.potential_exfiltration.SrcBytes[10].value

\* ---------------------------------------------------------------------
\* detect_anomalies
\* ---------------------------------------------------------------------
\* A DataFrame is its list of columns and its rows, the rows as blocks;
\* a row is a function on the columns.
MaxRuns == 2

Columns ==
  <<"StartTime", "Dur", "Proto", "SrcAddr", "DstAddr", "SrcPort", "DstPort",
    "TotPkts", "TotBytes", "SrcBytes", "DstBytes", "PktSize", "LabelCategory",
    "ProtoCategory", "SrcIP_Private", "DstIP_Private">>

WebFlow ==
  [StartTime |-> Timestamp(StartSecond), Dur |-> 2, Proto |-> "tcp",
   SrcAddr |-> Client, DstAddr |-> Server1, SrcPort |-> 1025, DstPort |-> 80,
   TotPkts |-> 10, TotBytes |-> 400, SrcBytes |-> 300, DstBytes |-> 100,
   PktSize |-> Mean(400, 10), LabelCategory |-> "Botnet", ProtoCategory |-> "TCP",
   SrcIP_Private |-> TRUE, DstIP_Private |-> FALSE]

DnsFlow ==
  [StartTime |-> Timestamp(StartSecond + 3600), Dur |-> 1, Proto |-> "udp",
   SrcAddr |-> Client, DstAddr |-> Server2, SrcPort |-> 1026, DstPort |-> 53,
   TotPkts |-> 2, TotBytes |-> 200, SrcBytes |-> 80, DstBytes |-> 120,
   PktSize |-> Mean(200, 2), LabelCategory |-> "Normal", ProtoCategory |-> "UDP",
   SrcIP_Private |-> TRUE, DstIP_Private |-> FALSE]

LocalFlow ==
  [StartTime |-> NaT, Dur |-> 0, Proto |-> "icmp",
   SrcAddr |-> Workstation, DstAddr |-> Inside, SrcPort |-> 0, DstPort |-> 0,
   TotPkts |-> 1, TotBytes |-> 60, SrcBytes |-> 60, DstBytes |-> 0,
   PktSize |-> Mean(60, 1), LabelCategory |-> "Background", ProtoCategory |-> "ICMP",
   SrcIP_Private |-> TRUE, DstIP_Private |-> TRUE]

Flows == {WebFlow, DnsFlow, LocalFlow}

FlowBlocks == [row : Flows, n : {1, 9, LongRun}, ports : {1}]

DataFrames ==
  {[columns |-> Columns, blocks |-> b] :
     b \in UNION {[1..k -> FlowBlocks] : k \in 0..MaxBlocks}}

\* features, line 46
anomaly_features ==
  <<"Dur", "TotPkts", "TotBytes", "SrcBytes", "DstBytes", "PktSize", "SrcPort", "DstPort">>

\* df[features].fillna(0): one vector per row (no feature of Flows is null)
select(d, features) ==
  [i \in 1..Len(d.blocks) |->
     [row |-> [j \in 1..Len(features) |-> d.blocks[i].row[features[j]]],
      n |-> d.blocks[i].n]]

\* StandardScaler.fit(X): check_array refuses an array without samples
fit(X) ==
  IF len(X) = 0 THEN Raise("ValueError")
  ELSE Ok([n_features_in |-> IF X = <<>> THEN 0 ELSE Len(X[1].row), fitted_on |-> X])

\* StandardScaler.transform(X) with the statistics of the last fit
transform(sc, X) ==
  IF len(X) = 0 \/ sc.n_features_in # Len(X[1].row) THEN Raise("ValueError")
  ELSE Ok([i \in 1..Len(X) |-> [row |-> [x |-> X[i].row, by |-> sc.fitted_on], n |-> X[i].n]])

\* the anomaly scores an isolation forest can give to the vectors of X: the
\* same score to equal vectors
Scores == 1..2

Vectors == {select([columns |-> Columns, blocks |-> <<[row |-> f, n |-> 1]>>],
                   anomaly_features)[1].row : f \in Flows}

Forests == [Vectors -> Scores]

\* the generators of pseudo-random numbers: the forest each seed grows
Seeds == {42}

Generators == [Seeds -> Forests]

\* the forests IsolationForest(random_state) can grow: any forest when
\* random_state is None, the one of the seed otherwise
forests_grown(generator, random_state) ==
  IF random_state = None THEN Forests ELSE {generator[random_state.val]}

\* the k-th smallest (k from 1) of the values v, each taken n times
kth(W, k) ==
  LET below(x) == len(SelectSeq(W, LAMBDA w : w.v < x))
      upto(x) == len(SelectSeq(W, LAMBDA w : w.v <= x))
  IN  CHOOSE x \in {W[i].v : i \in 1..Len(W)} : below(x) < k /\ k <= upto(x)

\* np.percentile(W, pct), linear interpolation, as a quotient over 100
percentile(W, pct) ==
  LET pos == (len(W) - 1) * pct
      lo == kth(W, (pos \div 100) + 1)
      hi == IF pos % 100 = 0 THEN lo ELSE kth(W, (pos \div 100) + 2)
  IN  Mean(100 * lo + (pos % 100) * (hi - lo), 100)

\* IsolationForest(contamination).fit_predict(X_scaled) and score_samples:
\* offset_ is the contamination percentile of the scores, and a sample is
\* an outlier (-1) when its score is below offset_
fit_predict(X_scaled, contamination, forest) ==
  LET score(i) == forest[X_scaled[i].row.x]
      W == [i \in 1..Len(X_scaled) |-> [v |-> score(i), n |-> X_scaled[i].n]]
      offset == percentile(W, contamination)
  IN  [i \in 1..Len(X_scaled) |->
         [Anomaly |-> IF score(i) * offset.den < offset.num THEN -1 ELSE 1,
          AnomalyScore |-> score(i)]]

\* df.copy() with the columns of `added' set, block by block
with_columns(d, names, added) ==
  [columns |-> d.columns \o SelectSeq(names, LAMBDA c : \A j \in 1..Len(d.columns) : d.columns[j] # c),
   blocks |-> [i \in 1..Len(d.blocks) |->
                 [d.blocks[i] EXCEPT !.row =
                    [c \in DOMAIN d.blocks[i].row \cup DOMAIN added[i] |->
                       IF c \in DOMAIN added[i] THEN added[i][c] ELSE d.blocks[i].row[c]]]]]

\* the part of detect_anomalies after the scaler was fitted
detect_anomalies_scaled(d, contamination, forest, sc) ==
  LET X == select(d, anomaly_features)
      X_scaled == transform(sc, X)
      anomaly_labels == fit_predict(X_scaled.val, contamination, forest)
      df_with_anomalies == with_columns(d, <<"Anomaly", "AnomalyScore">>, anomaly_labels)
      anomalies ==
        SelectSeq(df_with_anomalies.blocks, LAMBDA b : b.row["Anomaly"] = -1)
  IN  IF X_scaled.tag = "raise" THEN X_scaled
      ELSE Ok([df_with_anomalies |-> df_with_anomalies,
               anomaly_analysis |->
                 [total_anomalies |-> len(anomalies),
                  anomaly_percentage |-> Mean(len(anomalies) * 100, len(d.blocks))]])

detect_anomalies(d, contamination, forest) ==
  LET sc == fit(select(d, anomaly_features))
  IN  IF sc.tag = "raise" THEN sc
      ELSE detect_anomalies_scaled(d, contamination, forest, sc.val)

InitAnomaly ==
  /\ pc = "call"
  /\ df \in DataFrames
  /\ arg \in [contamination : {10, 25}, generator : Generators]
  /\ findings = <<>>
  /\ scaler = None
  /\ ret = None /\ fs = <<>>
  /\ lines = <<>> /\ flows = <<>> /\ result = None /\ err = None /\ log = <<>>

\* one call detect_anomalies(df, contamination); IsolationForest is built
\* with random_state=42
DetectAnomalies ==
  /\ Len(findings) < MaxRuns
  /\ \E forest \in forests_grown(arg.generator, Ok(42)) :
       findings' = Append(findings, detect_anomalies(df, arg.contamination, forest))
  /\ scaler' = IF fit(select(df, anomaly_features)).tag = "raise"
                 THEN scaler ELSE fit(select(df, anomaly_features)).val
  /\ UNCHANGED <<pc, lines, flows, result, err, log, arg, ret, df, fs>>

NextAnomaly == DetectAnomalies

SpecAnomaly == InitAnomaly /\ [][NextAnomaly]_vars

\* ---------------------------------------------------------------------
\* Properties of detect_anomalies
\* ---------------------------------------------------------------------
\* the number of records of a DataFrame
RECURSIVE Records(_)
Records(blocks) == IF blocks = <<>> THEN 0 ELSE Head(blocks).n + Records(Tail(blocks))

\* the records flagged as outliers
RECURSIVE Flagged(_)
Flagged(blocks) ==
  IF blocks = <<>> THEN 0
  ELSE (IF Head(blocks).row["Anomaly"] = -1 THEN Head(blocks).n ELSE 0) + Flagged(Tail(blocks))

Distance(a, b) == IF a < b THEN b - a ELSE a - b

\* C17: on a dataset of zero records or of one record no call of
\* detect_anomalies raises.
C17_TinyDatasetDoesNotRaise ==
  Records(df.blocks) <= 1 => \A k \in 1..Len(findings) : findings[k].tag # "raise"

\* C18: every run of detect_anomalies with contamination c on N records
\* returns every record with an Anomaly flag of -1 or 1, flags c * N
\* records up to rounding (less than one record away), reports
\* total_anomalies as the number of -1 flags and anomaly_percentage as
\* total_anomalies / N * 100, and all runs on the dataset return the same.
C18_ContaminationShare ==
  \A k \in 1..Len(findings) :
    /\ findings[k].tag = "ok"
    /\ LET out == findings[k].val.df_with_anomalies.blocks
           report == findings[k].val.anomaly_analysis
       IN  /\ Len(out) = Len(df.blocks)
           /\ \A i \in 1..Len(out) :
                out[i].n = df.blocks[i].n /\ out[i].row["Anomaly"] \in {-1, 1}
           /\ Distance(100 * Flagged(out), arg.contamination * Records(df.blocks)) < 100
           /\ report.total_anomalies = Flagged(out)
           /\ report.anomaly_percentage.num * Records(df.blocks)
                = 100 * Flagged(out) * report.anomaly_percentage.den
    /\ \A j \in 1..Len(findings) : findings[j] = findings[k]

\* ---------------------------------------------------------------------
\* One analyzer and one DataFrame: analyze_traffic_patterns,
\* detect_anomalies, detect_botnet_behavior, cluster_network_behavior and
\* generate_threat_intelligence, each called once, in any order; the two
\* calls that use self.scaler may run in two threads, which can switch
\* between the fit and the transform of fit_transform.
\* ---------------------------------------------------------------------
Analyses == {"traffic", "anomaly", "botnet", "cluster", "threat"}

\* Series.dt.hour and Series.dt.dayofweek; second 0 is 2011-08-10 00:00, a
\* Wednesday
hour(t) == IF t = NaT THEN NaN ELSE (t.val \div 3600) % 24

dayofweek(t) == IF t = NaT THEN NaN ELSE (2 + t.val \div 86400) % 7

\* Series.value_counts() of a column without nulls: the rows by value
value_counts(blocks, column) ==
  LET keys == {blocks[i].row[column] : i \in 1..Len(blocks)}
  IN  [k \in keys |-> len(SelectSeq(blocks, LAMBDA b : b.row[column] = k))]

\* df['Hour'] = ...; df['DayOfWeek'] = ...: the DataFrame after the two
\* assignments
_analyze_temporal_patterns_df(d) ==
  with_columns(d, <<"Hour", "DayOfWeek">>,
               [i \in 1..Len(d.blocks) |->
                  [Hour |-> hour(d.blocks[i].row["StartTime"]),
                   DayOfWeek |-> dayofweek(d.blocks[i].row["StartTime"])]])

analyze_traffic_patterns(d) ==
  LET timed == SelectSeq(d.blocks, LAMBDA b : b.row["StartTime"] # NaT)
  IN  [temporal_patterns |->
         [hourly_distribution |-> value_counts(timed, "Hour"),
          daily_distribution |-> value_counts(timed, "DayOfWeek")],
       ip_analysis |->
         [unique_src_ips |-> Cardinality({d.blocks[i].row["SrcAddr"] : i \in 1..Len(d.blocks)}),
          unique_dst_ips |-> Cardinality({d.blocks[i].row["DstAddr"] : i \in 1..Len(d.blocks)})]]

\* the rows of the blocks, one by one
RECURSIVE expand(_)
expand(blocks) ==
  IF blocks = <<>> THEN <<>>
  ELSE [i \in 1..Head(blocks).n |-> Head(blocks).row] \o expand(Tail(blocks))

detect_botnet_behavior(d) ==
  [c2_communication |-> _detect_c2_communication(d.blocks),
   periodic_beaconing |-> _detect_periodic_beaconing(expand(d.blocks)),
   port_scanning |-> _detect_port_scanning(d.blocks),
   data_exfiltration |-> _detect_data_exfiltration(d.blocks),
   dns_tunneling |-> _detect_dns_tunneling(d.blocks)]

\* features, line 93
cluster_features == <<"Dur", "TotPkts", "TotBytes", "SrcBytes", "PktSize">>

ClusterVectors ==
  {select([columns |-> Columns, blocks |-> <<[row |-> f, n |-> 1]>>],
          cluster_features)[1].row : f \in Flows}

\* the labels DBSCAN can give: noise (-1) or a cluster, the same to equal
\* vectors
Labelings == {[v \in ClusterVectors |-> l] : l \in {-1, 0}}

\* Series.mode().iloc[0], or 'Unknown' when mode() is empty: mode() holds
\* the most frequent values in sorted order
mode_first(blocks, column) ==
  LET counts == value_counts(blocks, column)
      modes == {k \in DOMAIN counts : \A j \in DOMAIN counts : counts[j] <= counts[k]}
  IN  IF modes = {} THEN "Unknown"
      ELSE CHOOSE k \in modes : \A j \in modes \ {k} : LessText(Chars(k), Chars(j))

\* the part of cluster_network_behavior after the scaler was fitted
cluster_network_behavior_scaled(d, labeling, sc) ==
  LET X == select(d, cluster_features)
      X_scaled == transform(sc, X)
      cluster_labels == [i \in 1..Len(X) |-> labeling[X_scaled.val[i].row.x]]
      df_clustered ==
        with_columns(d, <<"Cluster">>, [i \in 1..Len(X) |-> [Cluster |-> cluster_labels[i]]])
      cluster_data(id) == SelectSeq(df_clustered.blocks, LAMBDA b : b.row["Cluster"] = id)
  IN  IF X_scaled.tag = "raise" THEN X_scaled
      ELSE Ok([df_clustered |-> df_clustered,
               cluster_analysis |->
                 [id \in {cluster_labels[i] : i \in 1..Len(X)} \ {-1} |->
                    [size |-> len(cluster_data(id)),
                     avg_bytes |-> Mean(sum_TotBytes(cluster_data(id)), len(cluster_data(id))),
                     dominant_protocol |-> mode_first(cluster_data(id), "ProtoCategory")]]])

cluster_network_behavior(d, labeling) ==
  LET sc == fit(select(d, cluster_features))
  IN  IF sc.tag = "raise" THEN sc
      ELSE cluster_network_behavior_scaled(d, labeling, sc.val)

generate_threat_intelligence(d) ==
  LET malicious_flows ==
        SelectSeq(d.blocks, LAMBDA b : b.row["LabelCategory"] \in {"Botnet", "C&C"})
  IN  [malicious_ips |->
         [malicious_sources |->
            value_counts(malicious_flows, "SrcAddr")],
       attack_timeline |-> [no_attacks_detected |-> len(malicious_flows) = 0]]

SessionFrames ==
  {d \in DataFrames : Len(d.blocks) >= 1 /\ \A i \in 1..Len(d.blocks) : d.blocks[i].n < LongRun}

InitSession ==
  /\ arg \in [df : SessionFrames, contamination : {10},
              generator : Generators, labeling : Labelings]
  /\ df = arg.df
  /\ pc = [a \in Analyses |-> "start"]
  /\ findings = [a \in Analyses |-> None]
  /\ scaler = None
  /\ ret = None /\ fs = <<>>
  /\ lines = <<>> /\ flows = <<>> /\ result = None /\ err = None /\ log = <<>>

\* analyze_traffic_patterns(df)
AnalyzeTrafficPatterns ==
  /\ pc["traffic"] = "start"
  /\ pc' = [pc EXCEPT !["traffic"] = "done"]
  /\ df' = _analyze_temporal_patterns_df(df)
  /\ findings' = [findings EXCEPT !["traffic"] = Ok(analyze_traffic_patterns(df'))]
  /\ UNCHANGED <<lines, flows, result, err, log, arg, ret, scaler, fs>>

\* detect_anomalies(df), up to the fit of self.scaler
DetectAnomaliesFit ==
  /\ pc["anomaly"] = "start"
  /\ LET sc == fit(select(df, anomaly_features))
     IN  IF sc.tag = "raise"
           THEN /\ pc' = [pc EXCEPT !["anomaly"] = "done"]
                /\ findings' = [findings EXCEPT !["anomaly"] = sc]
                /\ UNCHANGED scaler
           ELSE /\ pc' = [pc EXCEPT !["anomaly"] = "fitted"]
                /\ scaler' = sc.val
                /\ UNCHANGED findings
  /\ UNCHANGED <<lines, flows, result, err, log, arg, ret, df, fs>>

\* detect_anomalies(df), from the transform of self.scaler on
DetectAnomaliesPredict ==
  /\ pc["anomaly"] = "fitted"
  /\ pc' = [pc EXCEPT !["anomaly"] = "done"]
  /\ \E forest \in forests_grown(arg.generator, Ok(42)) :
       findings' = [findings EXCEPT !["anomaly"] =
                      detect_anomalies_scaled(df, arg.contamination, forest, scaler)]
  /\ UNCHANGED <<lines, flows, result, err, log, arg, ret, df, scaler, fs>>

\* detect_botnet_behavior(df)
DetectBotnetBehavior ==
  /\ pc["botnet"] = "start"
  /\ pc' = [pc EXCEPT !["botnet"] = "done"]
  /\ findings' = [findings EXCEPT !["botnet"] = Ok(detect_botnet_behavior(df))]
  /\ UNCHANGED <<lines, flows, result, err, log, arg, ret, df, scaler, fs>>

\* cluster_network_behavior(df), up to the fit of self.scaler
ClusterFit ==
  /\ pc["cluster"] = "start"
  /\ LET sc == fit(select(df, cluster_features))
     IN  IF sc.tag = "raise"
           THEN /\ pc' = [pc EXCEPT !["cluster"] = "done"]
                /\ findings' = [findings EXCEPT !["cluster"] = sc]
                /\ UNCHANGED scaler
           ELSE /\ pc' = [pc EXCEPT !["cluster"] = "fitted"]
                /\ scaler' = sc.val
                /\ UNCHANGED findings
  /\ UNCHANGED <<lines, flows, result, err, log, arg, ret, df, fs>>

\* cluster_network_behavior(df), from the transform of self.scaler on
ClusterPredict ==
  /\ pc["cluster"] = "fitted"
  /\ pc' = [pc EXCEPT !["cluster"] = "done"]
  /\ findings' = [findings EXCEPT !["cluster"] =
                    cluster_network_behavior_scaled(df, arg.labeling, scaler)]
  /\ UNCHANGED <<lines, flows, result, err, log, arg, ret, df, scaler, fs>>

\* generate_threat_intelligence(df)
GenerateThreatIntelligence ==
  /\ pc["threat"] = "start"
  /\ pc' = [pc EXCEPT !["threat"] = "done"]
  /\ findings' = [findings EXCEPT !["threat"] = Ok(generate_threat_intelligence(df))]
  /\ UNCHANGED <<lines, flows, result, err, log, arg, ret, df, scaler, fs>>

NextSession ==
  \/ AnalyzeTrafficPatterns
  \/ DetectAnomaliesFit
  \/ DetectAnomaliesPredict
  \/ DetectBotnetBehavior
  \/ ClusterFit
  \/ ClusterPredict
  \/ GenerateThreatIntelligence

SpecSession == InitSession /\ [][NextSession]_vars

\* ---------------------------------------------------------------------
\* Properties of the analyses on one DataFrame
\* ---------------------------------------------------------------------
\* C15: whatever analyses were called, the DataFrame passed in has the
\* columns and the rows, in the same order, that it had before the calls.
C15_InputUnchanged ==
  df.columns = arg.df.columns /\ df.blocks = arg.df.blocks

\* the result of an analysis called alone on the DataFrame as it was
\* passed in, with a new analyzer
Alone(a) ==
  CASE a = "traffic" -> Ok(analyze_traffic_patterns(_analyze_temporal_patterns_df(arg.df)))
    [] a = "anomaly" -> detect_anomalies(arg.df, arg.contamination, arg.generator[42])
    [] a = "botnet" -> Ok(detect_botnet_behavior(arg.df))
    [] a = "cluster" -> cluster_network_behavior(arg.df, arg.labeling)

\* C16: the result of traffic-pattern analysis, anomaly detection, botnet
\* detection and clustering, with the augmented DataFrame it returns, is
\* the result of that analysis run alone, whatever ran before it or is
\* interleaved with it.
C16_SameAsAlone ==
  \A a \in {"traffic", "anomaly", "botnet", "cluster"} :
    pc[a] = "done" => findings[a] = Alone(a)

\* ---------------------------------------------------------------------
\* get_dataset_summary
\* ---------------------------------------------------------------------
\* a + b on quotients
add(a, b) == Mean(a.num * b.den + b.num * a.den, a.den * b.den)

\* Series.sum() of a column of integers, of a column of quotients
RECURSIVE sum_column(_, _)
sum_column(blocks, column) ==
  IF blocks = <<>> THEN 0
  ELSE Head(blocks).n * Head(blocks).row[column] + sum_column(Tail(blocks), column)

RECURSIVE sum_quotients(_, _)
sum_quotients(blocks, column) ==
  IF blocks = <<>> THEN Mean(0, 1)
  ELSE add(Mean(Head(blocks).n * Head(blocks).row[column].num, Head(blocks).row[column].den),
           sum_quotients(Tail(blocks), column))

\* Series.mean(): nan for an empty column
mean_column(blocks, column) ==
  IF len(blocks) = 0 THEN nan ELSE Mean(sum_column(blocks, column), len(blocks))

mean_quotients(blocks, column) ==
  IF len(blocks) = 0 THEN nan
  ELSE Mean(sum_quotients(blocks, column).num, sum_quotients(blocks, column).den * len(blocks))

\* Series.nunique()
nunique(blocks, column) == Cardinality({blocks[i].row[column] : i \in 1..Len(blocks)})

\* Series.min() and Series.max() of StartTime: NaT is skipped, and is the
\* result when nothing is left
min_StartTime(blocks) ==
  LET times == {blocks[i].row["StartTime"] : i \in 1..Len(blocks)} \ {NaT}
  IN  IF times = {} THEN NaT ELSE CHOOSE t \in times : \A u \in times : t.val <= u.val

max_StartTime(blocks) ==
  LET times == {blocks[i].row["StartTime"] : i \in 1..Len(blocks)} \ {NaT}
  IN  IF times = {} THEN NaT ELSE CHOOSE t \in times : \A u \in times : t.val >= u.val

two_digits(n) == <<CHOOSE c \in Digits : DigitVal(c) = n \div 10,
                   CHOOSE c \in Digits : DigitVal(c) = n % 10>>

\* str(timestamp): 'YYYY-MM-DD HH:MM:SS', second 0 being 2011-08-10 00:00:00
str_timestamp(t) ==
  IF t = NaT THEN Chars("NaT")
  ELSE Chars("2011-08-") \o two_digits(10 + t.val \div 86400) \o <<" ">>
       \o two_digits((t.val \div 3600) % 24) \o <<":">>
       \o two_digits((t.val \div 60) % 60) \o <<":">>
       \o two_digits(t.val % 60)

\* (b - a).total_seconds() / 3600
hours_between(a, b) ==
  IF total_seconds(a, b) = nan THEN nan ELSE Mean(total_seconds(a, b).val, 3600)

\* the summary with total_bytes taken from the column SrcBytes
get_dataset_summary_src_bytes(d) ==
  [total_flows |-> len(d.blocks),
   time_range |->
     [start |-> str_timestamp(min_StartTime(d.blocks)),
      end |-> str_timestamp(max_StartTime(d.blocks)),
      duration_hours |-> hours_between(min_StartTime(d.blocks), max_StartTime(d.blocks))],
   label_distribution |-> value_counts(d.blocks, "LabelCategory"),
   protocol_distribution |-> value_counts(d.blocks, "ProtoCategory"),
   unique_src_ips |-> nunique(d.blocks, "SrcAddr"),
   unique_dst_ips |-> nunique(d.blocks, "DstAddr"),
   total_bytes |-> sum_column(d.blocks, "SrcBytes"),
   total_packets |-> sum_column(d.blocks, "TotPkts"),
   avg_flow_duration |-> mean_column(d.blocks, "Dur"),
   avg_packet_size |-> mean_quotients(d.blocks, "PktSize")]

get_dataset_summary(d) ==
  [total_flows |-> len(d.blocks),
   time_range |->
     [start |-> str_timestamp(min_StartTime(d.blocks)),
      end |-> str_timestamp(max_StartTime(d.blocks)),
      duration_hours |-> hours_between(min_StartTime(d.blocks), max_StartTime(d.blocks))],
   label_distribution |-> value_counts(d.blocks, "LabelCategory"),
   protocol_distribution |-> value_counts(d.blocks, "ProtoCategory"),
   unique_src_ips |-> nunique(d.blocks, "SrcAddr"),
   unique_dst_ips |-> nunique(d.blocks, "DstAddr"),
   total_bytes |-> sum_column(d.blocks, "TotBytes"),
   total_packets |-> sum_column(d.blocks, "TotPkts"),
   avg_flow_duration |-> mean_column(d.blocks, "Dur"),
   avg_packet_size |-> mean_quotients(d.blocks, "PktSize")]

\* log holds the names of the calls made so far, findings the summaries
InitSummary ==
  /\ df \in DataFrames
  /\ arg = df
  /\ findings = <<>>
  /\ log = <<>>
  /\ pc = "call"
  /\ ret = None /\ scaler = None /\ fs = <<>>
  /\ lines = <<>> /\ flows = <<>> /\ result = None /\ err = None

\* a call get_dataset_summary(df)
GetDatasetSummary ==
  /\ Len(findings) < MaxRuns
  /\ findings' = Append(findings, get_dataset_summary(df))
  /\ log' = Append(log, "get_dataset_summary")
  /\ UNCHANGED <<pc, lines, flows, result, err, arg, ret, df, scaler, fs>>

\* a call of another method of the parser between two summaries
ParseNetflowLine ==
  /\ Len(log) < MaxRuns + 1
  /\ IF log = <<>> THEN TRUE ELSE log[Len(log)] = "get_dataset_summary"
  /\ \E line \in FileLines : ret' = _parse_netflow_line(line)
  /\ log' = Append(log, "_parse_netflow_line")
  /\ UNCHANGED <<pc, lines, flows, result, err, arg, df, findings, scaler, fs>>

NextSummary == GetDatasetSummary \/ ParseNetflowLine

SpecSummary == InitSummary /\ [][NextSummary]_vars

\* ---------------------------------------------------------------------
\* Properties of get_dataset_summary
\* ---------------------------------------------------------------------
RECURSIVE ColumnTotal(_, _)
ColumnTotal(blocks, column) ==
  IF blocks = <<>> THEN 0
  ELSE Head(blocks).n * Head(blocks).row[column] + ColumnTotal(Tail(blocks), column)

Distinct(blocks, column) == {blocks[i].row[column] : i \in 1..Len(blocks)}

MaxScenarios == 3

\* the keys of CTU13Downloader.SCENARIOS
SCENARIOS == 1..MaxScenarios

\* what requests.get and the writing of the file come to for one scenario:
\* the file is written, the server refuses (no file), or the transfer
\* breaks after part of the file was written
Transfers == {"written", "refused", "broken"}

\* scenarios = args.scenarios if args.scenarios else list(range(1, 14))
scenarios_of(a) == IF a.scenarios = {} THEN SCENARIOS ELSE a.scenarios

\* download_scenario: True when the file of the scenario was written
download_scenario(scenario_num, transfer) ==
  scenario_num \in SCENARIOS /\ transfer[scenario_num] = "written"

\* download_scenarios: success_count == len(scenario_list)
download_scenarios(scenario_list, transfer) ==
  LET success_count == Cardinality({n \in scenario_list : download_scenario(n, transfer)})
  IN  success_count = Cardinality(scenario_list)

\* handle_download with full=False
handle_download(scenario_list, transfer) ==
  IF download_scenarios(scenario_list, transfer) THEN TRUE ELSE FALSE

\* handle_parse with scenario=None: parsed_data maps the files whose parse
\* did not return None
handle_parse(parsed_data) == IF parsed_data = {} THEN FALSE ELSE TRUE

\* handle_analyze with all=True: a scenario whose analysis raises is skipped
handle_analyze(csv_files) == IF csv_files = {} THEN FALSE ELSE TRUE

\* handle_visualize with scenario=None
handle_visualize(csv_files) == IF csv_files = {} THEN FALSE ELSE TRUE

\* one stage of the run: the scenarios that succeeded and failed in it, and
\* what its handler returned
Stage(name, succeeded, failed, returned) ==
  [stage |-> name, succeeded |-> succeeded, failed |-> failed, returned |-> returned]

\* fs.raw, fs.processed and fs.reports are the scenarios with a file in
\* data/raw, data/processed and data/reports; pc is the step of
\* handle_pipeline, log the stages run so far, result what it returned
InitPipeline ==
  /\ arg \in [scenarios : SUBSET SCENARIOS, skip_download : BOOLEAN, visualize : BOOLEAN]
  /\ fs \in [raw : SUBSET SCENARIOS, processed : {{}}, reports : {{}}, plots : {{}}]
  /\ pc = "download"
  /\ log = <<>>
  /\ result = None
  /\ lines = <<>> /\ flows = <<>> /\ err = None
  /\ ret = None /\ df = None /\ findings = <<>> /\ scaler = None

\* Step 1 with --skip-download
SkipDownload ==
  /\ pc = "download"
  /\ arg.skip_download
  /\ pc' = "parse"
  /\ UNCHANGED <<lines, flows, result, err, log, arg, ret, df, findings, scaler, fs>>

\* Step 1: handle_download
HandleDownload ==
  /\ pc = "download"
  /\ ~arg.skip_download
  /\ \E transfer \in [scenarios_of(arg) -> Transfers] :
       LET written == {n \in scenarios_of(arg) : transfer[n] = "written"}
           broken == {n \in scenarios_of(arg) : transfer[n] = "broken"}
           returned == handle_download(scenarios_of(arg), transfer)
       IN  /\ fs' = [fs EXCEPT !.raw = @ \cup written \cup broken]
           /\ log' = Append(log, Stage("download", written, scenarios_of(arg) \ written, returned))
           /\ pc' = IF returned THEN "parse" ELSE "return"
           /\ result' = IF returned THEN result ELSE Ok(FALSE)
  /\ UNCHANGED <<lines, flows, err, arg, ret, df, findings, scaler>>

\* Step 2: handle_parse
HandleParse ==
  /\ pc = "parse"
  /\ \E parsed_data \in SUBSET fs.raw :
       LET returned == handle_parse(parsed_data)
       IN  /\ fs' = [fs EXCEPT !.processed = @ \cup parsed_data]
           /\ log' = Append(log, Stage("parse", parsed_data, fs.raw \ parsed_data, returned))
           /\ pc' = IF returned THEN "analyze" ELSE "return"
           /\ result' = IF returned THEN result ELSE Ok(FALSE)
  /\ UNCHANGED <<lines, flows, err, arg, ret, df, findings, scaler>>

\* Step 3: handle_analyze
HandleAnalyze ==
  /\ pc = "analyze"
  /\ \E all_results \in SUBSET fs.processed :
       LET returned == handle_analyze(fs.processed)
       IN  /\ fs' = [fs EXCEPT !.reports = IF returned THEN @ \cup all_results ELSE @]
           /\ log' = Append(log, Stage("analyze", all_results, fs.processed \ all_results, returned))
           /\ pc' = IF returned /\ arg.visualize THEN "visualize" ELSE "return"
           /\ result' = IF ~returned THEN Ok(FALSE)
                        ELSE IF arg.visualize THEN result ELSE Ok(TRUE)
  /\ UNCHANGED <<lines, flows, err, arg, ret, df, findings, scaler>>

\* Step 4: handle_visualize
HandleVisualize ==
  /\ pc = "visualize"
  /\ \E plotted \in SUBSET fs.processed :
       LET returned == handle_visualize(fs.processed)
       IN  /\ fs' = [fs EXCEPT !.plots = IF returned THEN @ \cup plotted ELSE @]
           /\ log' = Append(log, Stage("visualize", plotted, fs.processed \ plotted, returned))
           /\ pc' = "return"
           /\ result' = Ok(returned)
  /\ UNCHANGED <<lines, flows, err, arg, ret, df, findings, scaler>>

NextPipeline ==
  SkipDownload \/ HandleDownload \/ HandleParse \/ HandleAnalyze \/ HandleVisualize

SpecPipeline == InitPipeline /\ [][NextPipeline]_vars

\* ---------------------------------------------------------------------
\* Properties of handle_pipeline
\* ---------------------------------------------------------------------
Upstream == {"download", "parse", "analyze"}

\* C20: a stage of download, parse or analyze in which at least one
\* scenario succeeded does not abort the run: its handler returns success
\* and the run goes on to the next stage, so that a run that has returned
\* failure has a last stage in which no scenario succeeded.
C20_AbortsOnlyWhenWhollyFailed ==
  /\ \A i \in 1..Len(log) :
       log[i].stage \in Upstream /\ log[i].succeeded # {} => log[i].returned
  /\ result = Ok(FALSE) => log # <<>> /\ log[Len(log)].succeeded = {}

\* C28: a pipeline run with --scenarios S parses and analyzes only
\* scenarios of S, with and without --skip-download.
C28_OnlySelectedScenarios ==
  arg.scenarios # {} =>
    \A i \in 1..Len(log) :
      log[i].stage \in {"parse", "analyze"} =>
        log[i].succeeded \cup log[i].failed \subseteq arg.scenarios

\* C26: every data line of the file that fails to parse (too few fields
\* or a non-numeric required field) is reported in a log message carrying
\* its line number.
C26_FailureLoggedWithLineNumber ==
  \A i \in 1..Len(lines) :
    IsDataLine(lines[i]) /\ (NumFields(lines[i]) < 14 \/ BadNumeric(lines[i]))
      => \E k \in 1..Len(log) : log[k].line_num = i

\* C27: the count a sub-detector returns is the number of entries of the
\* finding set it returns with it; for the exfiltration detector,
\* total_large_transfers is the number of reported sources.
C27_CountIsNumberOfFindings ==
  pc = "ret" =>
    findings.total_large_transfers = Len(findings.potential_exfiltration.SrcBytes)

\* ---------------------------------------------------------------------
\* main: one command per process, the files staying between commands
\* ---------------------------------------------------------------------
MaxCommands == 2

\* f"scenario_{n:02d}"
scenario_key(n) == Chars("scenario_") \o two_digits(n)

\* f"scenario_{scenario_num:02d}_capture.binetflow"
binetflow_filename(n) == scenario_key(n) \o Chars("_capture.binetflow")

\* input_dir / f"scenario_{scenario_num:02d}_capture_processed.csv"
csv_file(n) == scenario_key(n) \o Chars("_capture_processed.csv")

\* Path.stem: the name without its last suffix
stem(name) ==
  LET parts == split(name, ".")
  IN  IF Len(parts) = 1 THEN name
      ELSE SubSeq(name, 1, Len(name) - Len(parts[Len(parts)]) - 1)

\* Path.glob of a pattern prefix*suffix over the files of a directory
glob(files, prefix, suffix) ==
  {f \in files :
     /\ Len(f) >= Len(prefix) + Len(suffix)
     /\ SubSeq(f, 1, Len(prefix)) = prefix
     /\ SubSeq(f, Len(f) - Len(suffix) + 1, Len(f)) = suffix}

\* parse_all_scenarios: the keys of parsed_data, one per file that parsed
parse_all_scenarios(raw, parsable) ==
  {stem(f) : f \in glob(raw, <<>>, Chars(".binetflow")) \cap parsable}

\* save_processed_data: the files written
save_processed_data(data_dict) ==
  {scenario_name \o Chars("_processed.csv") : scenario_name \in data_dict}
    \cup {Chars("dataset_summary.csv")}

\* handle_parse on the files of input_dir (scenario 0: no --scenario)
parse_command(raw, scenario, parsable) ==
  LET parsed_data ==
        IF scenario # 0
          THEN IF binetflow_filename(scenario) \in raw \cap parsable
                 THEN {scenario_key(scenario)} ELSE {}
          ELSE parse_all_scenarios(raw, parsable)
  IN  IF parsed_data = {}
        THEN [returned |-> FALSE, raised |-> FALSE, written |-> {}]
        ELSE [returned |-> TRUE, raised |-> FALSE,
              written |-> save_processed_data(parsed_data)]

\* handle_analyze on the files of input_dir: the scenarios selected, those
\* whose file the loop opened, and those whose analysis was saved
analyze_command(processed, scenario, all, raising) ==
  LET csv_files == glob(processed, Chars("scenario_"), Chars("_processed.csv"))
      numbers == {int(split(stem(f), "_")[2]) : f \in csv_files}
      scenarios_to_analyze ==
        IF scenario # 0 THEN {scenario} ELSE {v.val : v \in numbers}
      opened == {n \in scenarios_to_analyze : csv_file(n) \in processed}
      nothing == [returned |-> FALSE, raised |-> FALSE,
                  selected |-> {}, opened |-> {}, analyzed |-> {}]
  IN  IF scenario # 0 /\ csv_file(scenario) \notin processed THEN nothing
      ELSE IF scenario = 0 /\ (~all \/ csv_files = {}) THEN nothing
      ELSE IF scenario = 0 /\ \E v \in numbers : v.tag = "raise"
        THEN [nothing EXCEPT !.raised = TRUE]
      ELSE [returned |-> TRUE, raised |-> FALSE,
            selected |-> scenarios_to_analyze, opened |-> opened,
            analyzed |-> opened \ raising]

\* download_full_dataset: extract_dataset's result is not looked at
download_full_dataset(downloaded, extracted) == IF downloaded THEN TRUE ELSE FALSE

\* sys.exit(0 if success else 1)
exit_code(success) == IF success THEN 0 ELSE 1

\* one run of main: the command, its arguments, what its handler did and
\* the exit code
Ran(command, args, out) ==
  [command |-> command, args |-> args, out |-> out, exit |-> exit_code(out.returned)]

RawFiles == {binetflow_filename(n) : n \in SCENARIOS}

InitMain ==
  /\ fs \in [raw : SUBSET RawFiles, processed : {{}}, reports : {{}}]
  /\ log = <<>>
  /\ ret = None
  /\ pc = "shell"
  /\ arg = None /\ df = None /\ findings = <<>> /\ scaler = None
  /\ lines = <<>> /\ flows = <<>> /\ result = None /\ err = None

\* no subcommand: help is printed, run returns False
MainNoCommand ==
  /\ Len(log) < MaxCommands
  /\ log' = Append(log, Ran("", <<>>, [returned |-> FALSE, raised |-> FALSE]))
  /\ ret' = Ok(exit_code(FALSE))
  /\ UNCHANGED <<pc, lines, flows, result, err, arg, df, findings, scaler, fs>>

\* any command whose handler raises: run logs the error and returns False
MainUnexpectedError ==
  /\ Len(log) < MaxCommands
  /\ \E command \in {"download", "parse", "analyze", "visualize", "pipeline", "info"} :
       log' = Append(log, Ran(command, <<>>, [returned |-> FALSE, raised |-> TRUE]))
  /\ ret' = Ok(exit_code(FALSE))
  /\ UNCHANGED <<pc, lines, flows, result, err, arg, df, findings, scaler, fs>>

\* download --full (the files of the archive are not among those the other
\* commands read)
MainDownloadFull ==
  /\ Len(log) < MaxCommands
  /\ \E downloaded \in BOOLEAN, extracted \in BOOLEAN :
       LET returned == download_full_dataset(downloaded, downloaded /\ extracted)
       IN  /\ log' = Append(log, Ran("download", [full |-> TRUE],
                                     [returned |-> returned, raised |-> FALSE,
                                      downloaded |-> downloaded,
                                      extracted |-> downloaded /\ extracted]))
           /\ ret' = Ok(exit_code(returned))
  /\ UNCHANGED <<pc, lines, flows, result, err, arg, df, findings, scaler, fs>>

\* download --scenarios N ...
MainDownloadScenarios ==
  /\ Len(log) < MaxCommands
  /\ \E scenario_list \in SUBSET SCENARIOS \ {{}} :
     \E transfer \in [scenario_list -> Transfers] :
       LET returned == handle_download(scenario_list, transfer)
           files == {binetflow_filename(n) : n \in {k \in scenario_list : transfer[k] # "refused"}}
       IN  /\ log' = Append(log, Ran("download", [full |-> FALSE, scenarios |-> scenario_list],
                                     [returned |-> returned, raised |-> FALSE]))
           /\ fs' = [fs EXCEPT !.raw = @ \cup files]
           /\ ret' = Ok(exit_code(returned))
  /\ UNCHANGED <<pc, lines, flows, result, err, arg, df, findings, scaler>>

\* parse [--scenario N]
MainParse ==
  /\ Len(log) < MaxCommands
  /\ \E scenario \in {0} \cup SCENARIOS, parsable \in SUBSET fs.raw :
       LET out == parse_command(fs.raw, scenario, parsable)
       IN  /\ log' = Append(log, Ran("parse", [scenario |-> scenario], out))
           /\ fs' = [fs EXCEPT !.processed = @ \cup out.written]
           /\ ret' = Ok(exit_code(out.returned))
  /\ UNCHANGED <<pc, lines, flows, result, err, arg, df, findings, scaler>>

\* analyze [--scenario N] [--all]
MainAnalyze ==
  /\ Len(log) < MaxCommands
  /\ \E scenario \in {0} \cup SCENARIOS, all \in BOOLEAN, raising \in SUBSET SCENARIOS :
       LET out == analyze_command(fs.processed, scenario, all, raising)
       IN  /\ log' = Append(log, Ran("analyze", [scenario |-> scenario, all |-> all], out))
           /\ fs' = [fs EXCEPT !.reports = @ \cup out.analyzed]
           /\ ret' = Ok(exit_code(out.returned))
  /\ UNCHANGED <<pc, lines, flows, result, err, arg, df, findings, scaler>>

NextMain ==
  \/ MainNoCommand \/ MainUnexpectedError \/ MainDownloadFull
  \/ MainDownloadScenarios \/ MainParse \/ MainAnalyze

SpecMain == InitMain /\ [][NextMain]_vars

\* ---------------------------------------------------------------------
\* Properties of main
\* ---------------------------------------------------------------------
\* C21: the exit code is 0 only if the command succeeded: a run with no
\* subcommand or with an unexpected exception exits non-zero, and so does
\* an analyze command in which the analysis of every selected scenario
\* failed.
C21_ExitCode ==
  \A i \in 1..Len(log) :
    /\ log[i].command = "" \/ log[i].out.raised => log[i].exit # 0
    /\ log[i].exit = 0 => log[i].out.returned
    /\ log[i].command = "analyze" /\ ~log[i].out.raised
         /\ log[i].out.selected # {} /\ log[i].out.analyzed = {}
       => log[i].exit # 0

\* C29: after a successful parse --scenario N, analyze --scenario N on the
\* directory parse wrote to finds the processed file of the scenario; after
\* any successful parse, every scenario analyze --all selects there has a
\* processed file the analysis loop opens.
C29_ParseThenAnalyze ==
  Len(log) = 2 /\ log[1].command = "parse" /\ ~log[1].out.raised /\ log[1].out.returned
    /\ log[2].command = "analyze" /\ ~log[2].out.raised
  => /\ log[1].args.scenario # 0 /\ log[2].args.scenario = log[1].args.scenario
        => log[2].out.returned
     /\ log[2].args.scenario = 0 /\ log[2].args.all
        => log[2].out.selected \subseteq log[2].out.opened

\* C30: download --full succeeds only if the archive was downloaded and
\* extracted.
C30_FullDownload ==
  \A i \in 1..Len(log) :
    log[i].command = "download" /\ ~log[i].out.raised =>
      (log[i].args.full /\ log[i].out.returned => log[i].out.extracted)

\* ---------------------------------------------------------------------
\* _clean_dataframe on the record of one line
\* ---------------------------------------------------------------------
\* df = pd.DataFrame(flows); df = self._clean_dataframe(df), for the one
\* record _parse_netflow_line returned
CleanDataframe ==
  /\ pc = "ret"
  /\ ret.tag = "ok"
  /\ pc' = "clean"
  /\ df' = _clean_dataframe(<<ret.val>>)
  /\ UNCHANGED <<lines, flows, result, err, log, arg, ret, findings, scaler, fs>>

NextEnrich == ParseLine \/ CleanDataframe

SpecEnrich == InitLine /\ [][NextEnrich]_vars

\* C24: the average packet size of an enriched record is its total bytes
\* over max(total packets, 1): the divisor is 1 for every packet count
\* below 1 and is never zero or negative.
C24_PacketSizeDivisor ==
  pc = "clean" =>
    /\ df[1].PktSize.num = df[1].TotBytes
    /\ df[1].PktSize.den = (IF df[1].TotPkts >= 1 THEN df[1].TotPkts ELSE 1)
    /\ df[1].PktSize.den > 0

\* ---------------------------------------------------------------------
\* the analysis operations on a DataFrame that lacks a column
\* ---------------------------------------------------------------------
\* the DataFrame d without one column
without(d, column) ==
  [columns |-> SelectSeq(d.columns, LAMBDA c : c # column),
   blocks |-> [i \in 1..Len(d.blocks) |->
                 [d.blocks[i] EXCEPT !.row = [c \in (DOMAIN @) \ {column} |-> @[c]]]]]

\* the columns an operation reads of d on its way, in the order it reads
\* them; cluster_network_behavior reads the last four in its loop over the
\* clusters, which has no turn when every record is noise
columns_read(operation, d, labeling) ==
  CASE operation = "traffic" ->
         <<"StartTime", "TotBytes", "LabelCategory", "ProtoCategory", "SrcPort",
           "DstPort", "SrcAddr", "DstAddr", "SrcIP_Private", "DstIP_Private",
           "Dur", "PktSize">>
    [] operation = "anomaly" ->
         anomaly_features \o <<"LabelCategory", "SrcAddr", "DstAddr", "ProtoCategory">>
    [] operation = "botnet" ->
         <<"DstIP_Private", "TotBytes", "DstAddr", "StartTime", "Dur", "SrcAddr",
           "DstPort", "SrcBytes">>
    [] operation = "cluster" ->
         LET has(c) == \E j \in 1..Len(d.columns) : d.columns[j] = c
             X == select(d, cluster_features)
         IN  IF (\A j \in 1..Len(cluster_features) : has(cluster_features[j]))
                /\ \E i \in 1..Len(X) : labeling[X[i].row] # -1
               THEN cluster_features \o <<"Dur", "TotBytes", "ProtoCategory", "LabelCategory">>
               ELSE cluster_features

\* df[column] for each column read: KeyError when df has no such column
getitem(d, names) ==
  IF \A i \in 1..Len(names) : \E j \in 1..Len(d.columns) : d.columns[j] = names[i]
    THEN Ok(names) ELSE Raise("KeyError")

\* arg.missing is the column the DataFrame lacks ("" when it lacks none)
InitColumns ==
  /\ arg \in [df : SessionFrames \cup {[columns |-> Columns, blocks |-> <<>>]},
              missing : {Columns[j] : j \in 1..Len(Columns)} \cup {""},
              contamination : {10}, generator : Generators, labeling : Labelings]
  /\ df = without(arg.df, arg.missing)
  /\ pc = "call"
  /\ findings = None
  /\ scaler = None /\ ret = None /\ fs = <<>>
  /\ lines = <<>> /\ flows = <<>> /\ result = None /\ err = None /\ log = <<>>

\* analyze_traffic_patterns(df)
CallAnalyzeTrafficPatterns ==
  /\ pc = "call"
  /\ pc' = "traffic"
  /\ df' = IF getitem(df, <<"StartTime">>).tag = "raise"
              THEN df ELSE _analyze_temporal_patterns_df(df)
  /\ findings' =
       IF getitem(df, columns_read("traffic", df, arg.labeling)).tag = "raise"
         THEN Raise("KeyError")
         ELSE Ok(analyze_traffic_patterns(df'))
  /\ UNCHANGED <<lines, flows, result, err, log, arg, ret, scaler, fs>>

\* detect_anomalies(df, contamination)
CallDetectAnomalies ==
  /\ pc = "call"
  /\ pc' = "anomaly"
  /\ findings' =
       IF getitem(df, anomaly_features).tag = "raise" THEN Raise("KeyError")
       ELSE IF fit(select(df, anomaly_features)).tag = "raise" THEN Raise("ValueError")
       ELSE IF getitem(df, columns_read("anomaly", df, arg.labeling)).tag = "raise"
         THEN Raise("KeyError")
       ELSE detect_anomalies(df, arg.contamination, arg.generator[42])
  /\ UNCHANGED <<lines, flows, result, err, log, arg, ret, df, scaler, fs>>

\* detect_botnet_behavior(df)
CallDetectBotnetBehavior ==
  /\ pc = "call"
  /\ pc' = "botnet"
  /\ findings' =
       IF getitem(df, columns_read("botnet", df, arg.labeling)).tag = "raise"
         THEN Raise("KeyError")
         ELSE Ok(detect_botnet_behavior(df))
  /\ UNCHANGED <<lines, flows, result, err, log, arg, ret, df, scaler, fs>>

\* cluster_network_behavior(df)
CallClusterNetworkBehavior ==
  /\ pc = "call"
  /\ pc' = "cluster"
  /\ findings' =
       IF getitem(df, cluster_features).tag = "raise" THEN Raise("KeyError")
       ELSE IF fit(select(df, cluster_features)).tag = "raise" THEN Raise("ValueError")
       ELSE IF getitem(df, columns_read("cluster", df, arg.labeling)).tag = "raise"
         THEN Raise("KeyError")
       ELSE cluster_network_behavior(df, arg.labeling)
  /\ UNCHANGED <<lines, flows, result, err, log, arg, ret, df, scaler, fs>>

NextColumns ==
  \/ CallAnalyzeTrafficPatterns \/ CallDetectAnomalies
  \/ CallDetectBotnetBehavior \/ CallClusterNetworkBehavior

SpecColumns == InitColumns /\ [][NextColumns]_vars

\* ---------------------------------------------------------------------
\* Properties of the analysis operations
\* ---------------------------------------------------------------------
\* the columns the code of an operation names
Required(operation) ==
  CASE operation = "traffic" ->
         {"StartTime", "TotBytes", "LabelCategory", "ProtoCategory", "SrcPort",
          "DstPort", "SrcAddr", "DstAddr", "SrcIP_Private", "DstIP_Private",
          "Dur", "PktSize"}
    [] operation = "anomaly" ->
         {"Dur", "TotPkts", "TotBytes", "SrcBytes", "DstBytes", "PktSize", "SrcPort",
          "DstPort", "LabelCategory", "ProtoCategory", "SrcAddr", "DstAddr"}
    [] operation = "botnet" ->
         {"DstIP_Private", "TotBytes", "DstAddr", "StartTime", "Dur", "SrcAddr",
          "DstPort", "SrcBytes"}
    [] operation = "cluster" ->
         {"Dur", "TotPkts", "TotBytes", "SrcBytes", "PktSize", "ProtoCategory",
          "LabelCategory"}

\* C22: an analysis operation called on a dataset that lacks a column it
\* requires ends in a KeyError or ValueError, never in a result.
C22_MissingColumnRaises ==
  pc # "call" /\ arg.missing \in Required(pc) =>
    findings.tag = "raise" /\ findings.exc \in {"KeyError", "ValueError"}

\* the category that is most frequent among the records of the blocks and,
\* among the most frequent ones, is met first
FirstMostFrequent(blocks) ==
  LET count(k) == Records(SelectSeq(blocks, LAMBDA b : b.row["ProtoCategory"] = k))
      met(k) == CHOOSE i \in 1..Len(blocks) :
                  /\ blocks[i].row["ProtoCategory"] = k
                  /\ \A j \in 1..(i - 1) : blocks[j].row["ProtoCategory"] # k
      seen == {blocks[i].row["ProtoCategory"] : i \in 1..Len(blocks)}
      most == {k \in seen : \A j \in seen : count(j) <= count(k)}
  IN  CHOOSE k \in most : \A j \in most : met(k) <= met(j)

ScenarioLists == UNION {[1..k -> SCENARIOS] : k \in 0..MaxScenarios}

\* a loop that leaves its list at the first item that failed
exhausted_at_failure(items, attempted) ==
  IF Len(attempted) = Len(items) THEN TRUE
  ELSE IF attempted = <<>> THEN FALSE
  ELSE ~attempted[Len(attempted)].succeeded

\* for item in items: the body is left for good when every item was taken
exhausted(items, attempted) == Len(attempted) = Len(items)

\* the item the for statement takes next
next_item(items, attempted) == items[Len(attempted) + 1]

Attempt(item, succeeded) == [item |-> item, succeeded |-> succeeded]

InitBatch ==
  /\ arg \in [loop : {"download_scenarios", "parse_all_scenarios", "handle_analyze"},
              items : ScenarioLists]
  \* glob lists every file once, in the order of the directory
  /\ arg.loop = "parse_all_scenarios" =>
       \A i, j \in 1..Len(arg.items) : arg.items[i] = arg.items[j] => i = j
  /\ result = [success_count |-> 0, parsed_data |-> {}, all_results |-> {}]
  /\ log = <<>>
  /\ ret = None
  /\ pc = "loop"
  /\ df = None /\ findings = <<>> /\ scaler = None /\ fs = <<>>
  /\ lines = <<>> /\ flows = <<>> /\ err = None

\* if self.download_scenario(scenario_num): success_count += 1
DownloadScenariosStep ==
  /\ pc = "loop" /\ arg.loop = "download_scenarios"
  /\ ~exhausted(arg.items, log)
  /\ \E transfer \in Transfers :
       LET scenario_num == next_item(arg.items, log)
           downloaded == download_scenario(scenario_num, [n \in SCENARIOS |-> transfer])
       IN  /\ log' = Append(log, Attempt(scenario_num, downloaded))
           /\ result' = IF downloaded
                          THEN [result EXCEPT !.success_count = @ + 1]
                          ELSE result
  /\ UNCHANGED <<pc, arg, ret, df, findings, scaler, fs, lines, flows, err>>

\* return success_count == len(scenario_list)
DownloadScenariosReturn ==
  /\ pc = "loop" /\ arg.loop = "download_scenarios"
  /\ exhausted(arg.items, log)
  /\ pc' = "ret"
  /\ ret' = Ok(result.success_count = Len(arg.items))
  /\ UNCHANGED <<arg, log, result, df, findings, scaler, fs, lines, flows, err>>

\* df = self.parse_biargus_file(file_path); kept when it is not None
ParseAllScenariosStep ==
  /\ pc = "loop" /\ arg.loop = "parse_all_scenarios"
  /\ ~exhausted(arg.items, log)
  /\ \E parsed \in BOOLEAN :
       LET file_path == binetflow_filename(next_item(arg.items, log))
           scenario_name == stem(file_path)
       IN  /\ log' = Append(log, Attempt(next_item(arg.items, log), parsed))
           /\ result' = IF parsed
                          THEN [result EXCEPT !.parsed_data = @ \cup {scenario_name}]
                          ELSE result
  /\ UNCHANGED <<pc, arg, ret, df, findings, scaler, fs, lines, flows, err>>

\* return parsed_data (the empty dict when no file was found)
ParseAllScenariosReturn ==
  /\ pc = "loop" /\ arg.loop = "parse_all_scenarios"
  /\ exhausted(arg.items, log)
  /\ pc' = "ret"
  /\ ret' = Ok(result.parsed_data)
  /\ UNCHANGED <<arg, log, result, df, findings, scaler, fs, lines, flows, err>>

\* the body of the loop of handle_analyze: the results of the scenario are
\* kept, or the exception is logged and the loop continues
AnalyzeScenarioStep ==
  /\ pc = "loop" /\ arg.loop = "handle_analyze"
  /\ ~exhausted(arg.items, log)
  /\ \E raised \in BOOLEAN :
       LET scenario_num == next_item(arg.items, log)
       IN  /\ log' = Append(log, Attempt(scenario_num, ~raised))
           /\ result' = IF raised THEN result
                        ELSE [result EXCEPT !.all_results = @ \cup {scenario_key(scenario_num)}]
  /\ UNCHANGED <<pc, arg, ret, df, findings, scaler, fs, lines, flows, err>>

\* complete_analysis.json is written and handle_analyze returns True
AnalyzeReturn ==
  /\ pc = "loop" /\ arg.loop = "handle_analyze"
  /\ exhausted(arg.items, log)
  /\ pc' = "ret"
  /\ ret' = Ok(TRUE)
  /\ UNCHANGED <<arg, log, result, df, findings, scaler, fs, lines, flows, err>>

NextBatch ==
  \/ DownloadScenariosStep
  \/ DownloadScenariosReturn
  \/ ParseAllScenariosStep
  \/ ParseAllScenariosReturn
  \/ AnalyzeScenarioStep
  \/ AnalyzeReturn

SpecBatch == InitBatch /\ [][NextBatch]_vars

\* the keys of the items that succeeded
Kept(key(_)) == {key(log[i].item) : i \in {k \in 1..Len(log) : log[k].succeeded}}

parsed_key(n) == stem(binetflow_filename(n))

\* C23: a batch loop that has returned attempted every item of its list,
\* once each and in order, whatever failed before; download_scenarios
\* counted the downloads that succeeded, parse_all_scenarios kept exactly
\* the datasets of the files that parsed, and the analyze loop kept
\* exactly the results of the scenarios that did not raise.
C23_EveryItemAttempted ==
  pc = "ret" =>
    /\ Len(log) = Len(arg.items)
    /\ \A i \in 1..Len(log) : log[i].item = arg.items[i]
    /\ arg.loop = "download_scenarios" =>
         result.success_count = Cardinality({i \in 1..Len(log) : log[i].succeeded})
    /\ arg.loop = "parse_all_scenarios" =>
         ret.val = Kept(parsed_key)
    /\ arg.loop = "handle_analyze" =>
         result.all_results = Kept(scenario_key)

\* a file failed to parse and a later file of the list was parsed and kept
C23_Witness ==
  /\ pc = "ret" /\ arg.loop = "parse_all_scenarios"
  /\ \E i, j \in 1..Len(log) :
       /\ i < j /\ ~log[i].succeeded /\ log[j].succeeded
       /\ parsed_key(log[j].item) \in ret.val
       /\ parsed_key(log[i].item) \notin ret.val

====
